---- MODULE Spec2Model ----
(***************************************************************************)
(* Task pipeline engine of llm-describe-image: Task / TaskStats            *)
(* (tasks/task.py), DiscoverTask (tasks/1. discover/task.py) and the       *)
(* orchestrator, worker loop and status printer of Pipeline                *)
(* (pipelines/pipeline.py; the same loop is worker_thread/main of          *)
(* llm_describe_directory.py).                                             *)
(*                                                                         *)
(* Threads are interleaved at the granularity of the individual accesses   *)
(* to shared lists (len, pop, append, remove, heappush, heappop): the code *)
(* takes no lock around Task.queue / Task.active, so every interleaving of *)
(* those accesses is a behaviour of the program.                           *)
(*                                                                         *)
(* Spec is the whole program with one worker per stage; SpecRun its        *)
(* workers and status printer alone; SpecRace has two workers on the       *)
(* middle stage; SpecVerbose runs with verbose on; SpecStats splits every  *)
(* += of TaskStats into its load and its store. SpecLoad lets load()       *)
(* raise; SpecPriority, SpecFifo and SpecLife exercise one task's queue    *)
(* and one stage's threads on their own; SpecRetry and SpecResume run over *)
(* an output directory that already holds artifacts (SkipCheckTask,        *)
(* WriteTask); SpecContext and SpecScore are ContextTask.execute            *)
(* (tasks/context/task.py); SpecGeo is a GeolocationTask worker            *)
(* (tasks/geolocate/task.py); SpecTotals has two threads of one stage with *)
(* the TaskStats updates split; SpecOrder is the discover worker and the   *)
(* status printer on a branching tree; SpecUnreadable is the discover      *)
(* worker on paths that cannot be listed; SpecWalk is the directory walk   *)
(* of ContextTask._get_nearby_images; SpecBackpressure is a two-thread     *)
(* stage feeding the last stage; SpecOpt is the download and LLM workers   *)
(* of llm-describe-directory-opt.py.                                       *)
(***************************************************************************)
EXTENDS Integers, Sequences, FiniteSets, TLC

(* ------------------------------------------------------------------ *)
(* Bounds of the model                                                  *)
(* ------------------------------------------------------------------ *)
\* the input tree: a chain of MaxDepth nested subdirectories under the root,
\* each directory holding FilesPerDir image files
MaxDepth == 1
FilesPerDir == 1

\* the add calls made from outside the pipeline when a task's queue is
\* exercised on its own: at most MaxAdds per task
MaxAdds == 3

\* ContextTask.execute on its own: a directory of MaxImages image files, with
\* max_context_items in 0..MaxItems
MaxImages == 3
MaxItems == 2

\* the scoring of ContextTask on its own: timestamps in 0..MaxTime
MaxTime == 2

\* GeolocationTask on its own: max_retries in 0..MaxRetries
MaxRetries == 3

\* the discover task on a branching tree without image files: every directory
\* above depth WideDepth has Fanout subdirectories
Fanout == 2
WideDepth == 2

(* ------------------------------------------------------------------ *)
(* Configuration of the pipeline                                        *)
(* ------------------------------------------------------------------ *)
\* Discover -> Check -> Write: a discover stage with a pending queue, a middle
\* stage with a rejection predicate and a transform, run by two threads with
\* the default maximum (as the geolocate stage is), and a last stage
NumStages == 3
Stages == 1..NumStages
Discover == 1
Check == 2
Write == 3

None == "None"

\* next_task is None
NoTask == 0

\* config["next_task"]
NextTask(s) == IF s < NumStages THEN s + 1 ELSE NoTask

\* Task.maximum: the constructors' default (maximum: int = 1)
maximum == [s \in Stages |-> 1]

\* config["num_threads"]: one discover thread, num_geolocate_threads = 2 for
\* a stage whose maximum is the default 1, one write thread
NumThreads == [s \in Stages |-> IF s = Check THEN 2 ELSE 1]

\* worker thread ids, in creation order; StageOf(w) is the task of thread w
Workers == 1..4
StageOf(w) == IF w = 1 THEN Discover ELSE IF w \in {2, 3} THEN Check ELSE Write

\* config["has_pending_queue"], config["check_rejection"]
HasPendingQueue(s) == s = Discover
HasCheckRejection(s) == s = Check

\* BACKPRESSURE_MULTIPLIER of the environment as the fraction MultNum / MultDen:
\* a run with BACKPRESSURE_MULTIPLIER=1
MultNum == 1
MultDen == 1

(* ------------------------------------------------------------------ *)
(* Paths and the input tree                                             *)
(* ------------------------------------------------------------------ *)
\* a path is the sequence of its components; the root is <<0>>, the
\* subdirectory of d is d \o <<0>>, its files are d \o <<k>>, k >= 1
Root == <<0>>

\* item.count(os.sep)
SepCount(p) == Len(p) - 1

\* a plain path string, and a tuple (path, value)
Str(p) == [k |-> "str", p |-> p, v |-> None]
Tup(p, v) == [k |-> "tuple", p |-> p, v |-> v]

\* isinstance(item, tuple) and len(item) >= 1
IsTuple(it) == it.k = "tuple"

RECURSIVE DescSeq(_, _)
\* files of directory d in descending name order (sort_order "natural-desc")
DescSeq(d, n) == IF n = 0 THEN << >> ELSE <<Str(d \o <<n>>)>> \o DescSeq(d, n - 1)

\* DiscoverTask.execute: (discovered_files, dirs)
ListDir(d) ==
    [t |-> "pair",
     out |-> DescSeq(d, FilesPerDir),
     pend |-> IF SepCount(d) < MaxDepth THEN <<Str(d \o <<0>>)>> ELSE << >>,
     skip |-> FALSE]

\* the directories of the input tree and the image files in them
Dirs == {[i \in 1..(d + 1) |-> 0] : d \in 0..MaxDepth}
Files == {d \o <<k>> : d \in Dirs, k \in 1..FilesPerDir}

\* nothing executed, nothing forwarded
NoHist == [exec |-> [d \in Dirs |-> 0], fwd |-> [f \in Files |-> 0], order |-> << >>]

\* DiscoverTask.execute on the branching tree: no files, the subdirectories
\* in listing order
ListWide(d) ==
    [t |-> "pair",
     out |-> << >>,
     pend |-> IF SepCount(d) < WideDepth
              THEN [k \in 1..Fanout |-> Str(d \o <<k - 1>>)] ELSE << >>,
     skip |-> FALSE]

\* SkipCheckTask.skip_all: a run without --retry
skip_all == FALSE

(* ------------------------------------------------------------------ *)
(* ContextTask: tasks/context/task.py                                   *)
(* ------------------------------------------------------------------ *)
\* the image files of one directory, named so that file i sorts before file
\* j as a string iff i < j. A path is <<i, raw>>: raw is FALSE for the
\* normalized spelling "dir/i", which is what os.path.join(dir, filename)
\* gives for a listed file, and TRUE for an unnormalized spelling "dir//i"
Images == 1..MaxImages
FilePath(i) == <<i, FALSE>>

\* os.path.normpath
Normpath(f) == <<f[1], FALSE>>

\* a < b on path strings: "dir//i" is below every "dir/j" ('/' sorts below
\* the first character of a file name)
PathLess(a, b) == IF a[2] = b[2] THEN a[1] < b[1] ELSE a[2]

\* the instants a timestamp can be: an earlier and a later one
Times == 0..1

\* get_image_metadata: no datetime, or datetime with datetime_min <= datetime_max
NoMeta == [datetime |-> FALSE, min |-> 0, max |-> 0]
Metas ==
    {NoMeta} \cup
    {[datetime |-> TRUE, min |-> x[1], max |-> x[2]] :
        x \in {y \in Times \X Times : y[1] <= y[2]}}

Abs(x) == IF x < 0 THEN 0 - x ELSE x

\* float('inf'): above every time difference
Inf == MaxTime + 1

\* ContextTask._calculate_relevance_score: (time_diff_min, time_diff_max)
RelevanceScore(t, c) ==
    IF t.datetime /\ c.datetime
    THEN <<Abs(t.max - c.min), Abs(t.min - c.max)>>
    ELSE <<Inf, Inf>>

\* s[:n]
Take(s, n) == SubSeq(s, 1, IF n < Len(s) THEN n ELSE Len(s))

RECURSIVE InsertByMax(_, _)
\* x put behind the entries of the sorted list whose key is not above its own
InsertByMax(sorted, x) ==
    IF sorted = << >> THEN <<x>>
    ELSE IF x.score[2] < sorted[Len(sorted)].score[2]
         THEN Append(InsertByMax(SubSeq(sorted, 1, Len(sorted) - 1), x), sorted[Len(sorted)])
         ELSE Append(sorted, x)

RECURSIVE SortByMax(_)
\* scored_candidates.sort(key=lambda x: x[0][1]): ascending, stable
SortByMax(cs) ==
    IF cs = << >> THEN << >>
    ELSE InsertByMax(SortByMax(SubSeq(cs, 1, Len(cs) - 1)), cs[Len(cs)])

\* os.listdir joined with the directory: the paths of the listed files
ListedPaths(c) == [i \in 1..Len(c.listing) |-> FilePath(c.listing[i])]

\* the first while loop of _get_nearby_images on one directory: it is entered
\* when 0 < max_context_items * 2 and keeps the files with filepath < input_path
AllUpImages(c) ==
    LET Before(f) == PathLess(f, c.input_path)
    IN IF 0 < c.max_context_items * 2 THEN SelectSeq(ListedPaths(c), Before) ELSE << >>

\* the second while loop: the files with filepath > input_path
AllDownImages(c) ==
    LET After(f) == PathLess(c.input_path, f)
    IN IF 0 < c.max_context_items * 2 THEN SelectSeq(ListedPaths(c), After) ELSE << >>

\* if os.path.normpath(img_path) == os.path.normpath(input_path): continue
SamePathRaw(f, g) == f = g
SamePath(f, g) == Normpath(f) = Normpath(g)

\* _get_nearby_images: every collected image but the target, with its score,
\* sorted by the max bound of the score
GetNearbyImages(c) ==
    LET all_images == AllUpImages(c) \o AllDownImages(c)
        Other(f) == ~SamePath(f, c.input_path)
        others == SelectSeq(all_images, Other)
    IN SortByMax([i \in 1..Len(others) |->
                     [score |-> RelevanceScore(c.meta[c.input_path[1]], c.meta[others[i][1]]),
                      img |-> others[i]]])

\* _read_description(path) is not None; a description is named by its image
HasDescription(c, f) == f[1] \notin c.no_desc

\* ContextTask.execute after _get_nearby_images: context_descriptions
ContextDescriptions(c) ==
    LET Finite(x) == x.score[2] < Inf
        context_candidates == SelectSeq(c.candidates, Finite)
        firstN == Take(context_candidates, c.max_context_items)
    IN IF c.candidates = << >> THEN << >>
       ELSE IF \E i \in 1..Len(c.candidates) : ~HasDescription(c, c.candidates[i].img)
            THEN << >>
            ELSE [i \in 1..Len(firstN) |-> firstN[i].img[1]]

\* no call of ContextTask.execute
NoCtx == [phase |-> "idle"]

\* os.listdir order: ascending or descending names
Ascending == [i \in 1..MaxImages |-> i]
Descending == [i \in 1..MaxImages |-> MaxImages + 1 - i]

\* the calls of ContextTask.execute: the target, the spelling of its path,
\* the listing order, the metadata of every image, the images that have no
\* description file (at most one), and max_context_items
CtxInputs ==
    {[phase |-> "input", input_path |-> <<t, raw>>, listing |-> l, meta |-> m,
      no_desc |-> nd, max_context_items |-> n, candidates |-> << >>, context |-> << >>] :
        t \in Images, raw \in BOOLEAN, l \in {Ascending, Descending},
        m \in [Images -> Metas],
        nd \in {{}} \cup {{i} : i \in Images}, n \in 0..MaxItems}

\* metadata with timestamps over 0..MaxTime: an exact instant (EXIF,
\* datetime_min = datetime_max) or a range (a date taken from a name)
WideMetas ==
    {NoMeta} \cup
    {[datetime |-> TRUE, min |-> x[1], max |-> x[2]] :
        x \in {y \in (0..MaxTime) \X (0..MaxTime) : y[1] <= y[2]}}

\* the calls of ContextTask.execute in which every image has a description
\* and the target path is normalized, with metadata drawn from metas
CtxScoreInputs(metas) ==
    {[phase |-> "input", input_path |-> <<t, FALSE>>, listing |-> l, meta |-> m,
      no_desc |-> {}, max_context_items |-> n, candidates |-> << >>, context |-> << >>] :
        t \in Images, l \in {Ascending, Descending},
        m \in [Images -> metas], n \in 1..MaxItems}

(* ------------------------------------------------------------------ *)
(* ContextTask._get_nearby_images over a directory tree                 *)
(* ------------------------------------------------------------------ *)
\* the tree under Root: every directory has the entries 1..WalkWidth; the
\* entries of a directory above depth WalkDepth with an odd name are
\* directories, every other entry is an image file.  Names are single
\* symbols, so that string order on paths is the order of their components.
WalkDepth == 2
WalkWidth == 3

\* os.path.isdir(p)
WalkIsDir(p) ==
    \/ p = << >>
    \/ /\ p[1] = Root[1]
       /\ Len(p) <= WalkDepth + 1
       /\ \A i \in 2..Len(p) : p[i] % 2 = 1

\* os.listdir(d) joined with d; the file system root holds Root alone
WalkEntries(d) ==
    IF d = << >> THEN {Root} ELSE {d \o <<k>> : k \in 1..WalkWidth}

\* os.path.dirname(p); the file system root is its own parent
Dirname(p) == IF p = << >> THEN << >> ELSE SubSeq(p, 1, Len(p) - 1)

\* a < b on path strings
SeqLess(a, b) ==
    \/ Len(a) < Len(b) /\ SubSeq(b, 1, Len(a)) = a
    \/ \E i \in 1..(IF Len(a) < Len(b) THEN Len(a) ELSE Len(b)) :
          /\ SubSeq(a, 1, i - 1) = SubSeq(b, 1, i - 1)
          /\ a[i] < b[i]

\* max(...) and min(...) over a non-empty set of paths
MaxPath(S) == CHOOSE d \in S : \A e \in S : e = d \/ SeqLess(e, d)
MinPath(S) == CHOOSE d \in S : \A e \in S : e = d \/ SeqLess(d, e)

RECURSIVE AscendingPaths(_)
\* the paths of S as a list in ascending order
AscendingPaths(S) ==
    IF S = {} THEN << >> ELSE <<MinPath(S)>> \o AscendingPaths(S \ {MinPath(S)})

\* parent_dir.startswith(root_path)
StartsWithAny(p, root) == TRUE
StartsWith(p, root) == Len(root) <= Len(p) /\ SubSeq(p, 1, Len(root)) = root

\* the directories and the image files of the tree
RECURSIVE WalkDirsFrom(_)
WalkDirsFrom(d) ==
    {d} \cup UNION {WalkDirsFrom(e) : e \in {x \in WalkEntries(d) : WalkIsDir(x)}}
WalkDirs == WalkDirsFrom(Root)
WalkFiles == UNION {{x \in WalkEntries(d) : ~WalkIsDir(x)} : d \in WalkDirs}

\* current_dir_key of the first loop (max) and of the second loop (min)
WalkPick(phase, needs) == IF phase = "up" THEN MaxPath(needs) ELSE MinPath(needs)

\* if filepath >= input_path: continue (first loop);
\* if filepath <= input_path: continue (second loop)
WalkKeeps(phase, filepath, input_path) ==
    IF phase = "up" THEN SeqLess(filepath, input_path) ELSE SeqLess(input_path, filepath)

\* no call of _get_nearby_images
NoWalk == [phase |-> "idle"]

\* the locals of _get_nearby_images on entry to its first loop: keys are the
\* keys of dirs_to_discover and needs those whose value is True; listed_up
\* and listed_down are history, the directories each loop passed to os.listdir
WalkStart(input_path, n) ==
    [phase |-> "up", input_path |-> input_path, max_context_items |-> n,
     keys |-> {Dirname(input_path)}, needs |-> {Dirname(input_path)},
     all_up_images |-> << >>, all_down_images |-> << >>,
     listed_up |-> << >>, listed_down |-> << >>]

\* the calls of _get_nearby_images with root_path = Root: the target is an
\* image file of the tree, max_context_items is in 0..MaxItems
WalkInputs == {WalkStart(f, n) : f \in WalkFiles, n \in 0..MaxItems}

(* ------------------------------------------------------------------ *)
(* llm-describe-directory-opt.py: download and LLM workers              *)
(* ------------------------------------------------------------------ *)
\* NUM_DOWNLOAD_THREADS, NUM_LLM_THREADS: the defaults
NUM_DOWNLOAD_THREADS == 2
NUM_LLM_THREADS == 1

\* MAX_DOWNLOADED_BEFORE_LLM of the environment, and the number of image
\* files without an output file that discovery finds
MAX_DOWNLOADED_BEFORE_LLM == 2
OptImages == 3

DownloadThreads == 1..NUM_DOWNLOAD_THREADS
LlmThreads == 1..NUM_LLM_THREADS

\* no run of the script
NoOpt == [stop_event |-> FALSE]

\* main at the start of discovery: threading.Semaphore(MAX_DOWNLOADED_BEFORE_LLM),
\* both queues empty, every worker thread at the top of its loop.  acq and
\* rel are history: the acquires and releases of the semaphore made for each
\* image; fate is how the handling of the image ended
OptStart ==
    [stop_event |-> FALSE,
     discovered |-> 0,
     download_queue |-> << >>,
     llm_queue |-> << >>,
     llm_queue_semaphore |-> MAX_DOWNLOADED_BEFORE_LLM,
     dpc |-> [d \in DownloadThreads |-> "get"],
     input_path |-> [d \in DownloadThreads |-> 0],
     acquired |-> [d \in DownloadThreads |-> FALSE],
     lpc |-> [l \in LlmThreads |-> "get"],
     llm_path |-> [l \in LlmThreads |-> 0],
     acq |-> [i \in 1..OptImages |-> 0],
     rel |-> [i \in 1..OptImages |-> 0],
     fate |-> [i \in 1..OptImages |-> "none"]]

(* ------------------------------------------------------------------ *)
(* GeolocationTask: tasks/geolocate/task.py                             *)
(* ------------------------------------------------------------------ *)
\* self.initial_wait_seconds of the geolocate pipeline
initial_wait_seconds == 1

\* the retry loop of a worker: attempt counts the calls of geolocator.reverse
\* made for the current item, last is how the latest call ended
GeoState(n) ==
    [max_retries |-> n,
     attempt |-> [w \in 1..4 |-> 0],
     wait_time |-> [w \in 1..4 |-> initial_wait_seconds],
     last |-> [w \in 1..4 |-> "none"]]
NoGeo == GeoState(0)

\* if attempt < self.max_retries - 1, for the loop index i of the failed call
RetryAlways(i, n) == TRUE
RetryAllowed(i, n) == i < n - 1

(* ------------------------------------------------------------------ *)
(* State                                                                *)
(* ------------------------------------------------------------------ *)
VARIABLES
    heap_queue,      \* DiscoverTask._heap_queue: entries <<-depth, counter, item>>
    counter,         \* DiscoverTask.counter
    queue,           \* Task.queue of the other stages
    active,          \* Task.active
    pending_queue,   \* DiscoverTask.pending_queue
    total,           \* Task.total (TaskStats)
    recent,          \* Task.recent (TaskStats)
    stop_event,      \* Pipeline.stop_event
    status_lock,     \* Pipeline.status_lock: None or the thread holding it
    verbose,         \* Pipeline.verbose
    pc,              \* position of each worker thread in _worker_thread
    item,            \* local `item` of each worker
    result,          \* local `result` / `pending_items` of each worker
    reg,             \* value a worker has read for the `+=` it is executing
    sp,              \* the TaskStats updates a worker still has to do
    calls,           \* history: finish/fail/reject calls for the worker's current item
    orch,            \* position of the main thread in _run_pipeline
    orch_i,          \* the task the all(...) generator is looking at
    printer,         \* position of the status printer thread
    interrupted,     \* history: SIGINT was delivered
    all_empty,       \* local `all_empty` of _run_pipeline
    load_failed,     \* history: the workers whose task.load() raised
    output_files,    \* the input files whose primary artifact exists on disk
    error_files,     \* the input files whose error artifact exists on disk
    retry_failed,    \* SkipCheckTask.retry_failed
    ctx,             \* a call of ContextTask.execute: its inputs, locals and result
    geo,             \* GeolocationTask: max_retries and each worker's retry loop
    hist,            \* history: calls of DiscoverTask.execute per directory and
                     \* of next_task.add by a discover worker per file
    walk,            \* a call of ContextTask._get_nearby_images: its locals
    opt              \* a run of llm-describe-directory-opt.py: its queues, its
                     \* semaphore, its stop flag and the position of each worker

vars == <<heap_queue, counter, queue, active, pending_queue, total, recent,
          stop_event, status_lock, verbose, pc, item, result, reg, sp, calls,
          orch, orch_i, printer, interrupted, all_empty, load_failed,
          output_files, error_files, retry_failed, ctx, geo, hist, walk, opt>>

(* ------------------------------------------------------------------ *)
(* Helpers                                                              *)
(* ------------------------------------------------------------------ *)
\* TaskStats.__init__ / TaskStats.reset
ZeroStats == [done |-> 0, failed |-> 0, rejected |-> 0, input |-> 0, output |-> 0]

\* list.remove(x): drops the first element equal to x
RECURSIVE RemoveFirst(_, _)
RemoveFirst(seq, x) ==
    IF seq = << >> THEN << >>
    ELSE IF Head(seq) = x THEN Tail(seq)
    ELSE <<Head(seq)>> \o RemoveFirst(Tail(seq), x)

\* x is the first element of the list
InSeqHead(seq, x) == seq # << >> /\ Head(seq) = x

\* x in list
InSeq(seq, x) == \E i \in 1..Len(seq) : seq[i] = x

\* tuple comparison (priority, counter) of two heap entries
EntryLess(a, b) == a[1] < b[1] \/ (a[1] = b[1] /\ a[2] < b[2])

\* index of the smallest entry of the heap, the one heapq.heappop returns
HeapMinIndex(h) == CHOOSE i \in 1..Len(h) : \A j \in 1..Len(h) : j = i \/ EntryLess(h[i], h[j])

\* heapq.heappop leaves the other entries
HeapRest(h) ==
    LET i == HeapMinIndex(h) IN SubSeq(h, 1, i - 1) \o SubSeq(h, i + 1, Len(h))

\* heappush of (depth, counter, item), the depth not negated
HeapAddShallow(h, c, it) == Append(h, <<SepCount(it.p), c, it>>)

\* DiscoverTask.add: heappush((-depth, counter, item)); counter += 1
HeapAdd(h, c, it) == Append(h, <<0 - SepCount(it.p), c, it>>)

\* len(task.queue): DiscoverTask.queue lists the heap's items
QueueLen(s) == IF s = Discover THEN Len(heap_queue) ELSE Len(queue[s])

\* no downstream check
GateOpen(s) == FALSE

\* the downstream check with > in place of >=
GateClosedStrict(s) ==
    /\ NextTask(s) # NoTask
    /\ QueueLen(NextTask(s)) * MultDen > maximum[NextTask(s)] * MultNum

\* the downstream check of start_next:
\* len(next_task.queue) >= next_task.maximum * backpressure_multiplier
GateClosed(s) ==
    /\ NextTask(s) # NoTask
    /\ QueueLen(NextTask(s)) * MultDen >= maximum[NextTask(s)] * MultNum

\* the first check of start_next:
\* len(self.active) >= self.maximum or not self.queue
NoCapacity(s) == Len(active[s]) >= maximum[s] \/ QueueLen(s) = 0

\* the TaskStats updates of one Task.finish / fail / reject call, in program
\* order: <<stats object, counter, increment>>
StatsOps(call, n) ==
    LET one(o) == IF call = "finish"
                  THEN <<<<o, "done", 1>>, <<o, "input", 1>>, <<o, "output", n>>>>
                  ELSE IF call = "fail"
                  THEN <<<<o, "failed", 1>>, <<o, "input", 1>>>>
                  ELSE <<<<o, "rejected", 1>>, <<o, "input", 1>>>>
    IN one("recent") \o one("total")

\* no counter value read
NoReg == 0 - 1

\* the worker holds no item
NoItem == [k |-> "none", p |-> << >>, v |-> None]

NoResult == [t |-> "none", out |-> << >>, pend |-> << >>, skip |-> FALSE]

\* output_count with the test 'result is not None' taken before the list test
OutputCountNotNone(s, r) ==
    IF HasPendingQueue(s) /\ r.t = "pair" THEN Len(r.out) + Len(r.pend)
    ELSE IF r.t = "none" THEN 0 ELSE 1

\* output_count of _worker_thread
OutputCount(s, r) ==
    IF HasPendingQueue(s) /\ r.t = "pair" THEN Len(r.out) + Len(r.pend)
    ELSE IF r.t = "list" THEN Len(r.out)
    ELSE IF r.t = "none" THEN 0 ELSE 1

\* while not self.stop_event.is_set(): the loop test, taken with the step that
\* ends the previous iteration (stop_event is only ever set, and no such step
\* reads it, so the test commutes with everything that happens in between)
LoopTopNoUnload == IF stop_event THEN "dead" ELSE "sn_cap"
LoopTop == IF stop_event THEN "unload" ELSE "sn_cap"

\* where the worker goes after task.finish(...) has returned
AfterPending(w) ==
    IF NextTask(StageOf(w)) # NoTask /\ result[w].out # << >> THEN "forward" ELSE LoopTop
AfterVerbose(w) ==
    IF result[w].pend # << >> /\ HasPendingQueue(StageOf(w)) THEN "pending" ELSE AfterPending(w)
AfterFinish(w) == IF verbose THEN "vb_lock" ELSE AfterVerbose(w)

\* daemon threads run only while the process lives
Running == orch # "exited"

(* ------------------------------------------------------------------ *)
(* Initial state: Pipeline.__init__, tasks constructed,                 *)
(* first_task.add(input_dir), threads created, none has run yet         *)
(* ------------------------------------------------------------------ *)
InitThreads(threads) ==
    /\ heap_queue = HeapAdd(<< >>, 0, Str(Root))
    /\ counter = 1
    /\ queue = [s \in Stages |-> << >>]
    /\ active = [s \in Stages |-> << >>]
    /\ pending_queue = << >>
    /\ total = [s \in Stages |-> ZeroStats]
    /\ recent = [s \in Stages |-> ZeroStats]
    /\ stop_event = FALSE
    /\ status_lock = None
    /\ pc = [w \in Workers |-> IF w \in threads THEN "load" ELSE "none"]
    /\ item = [w \in Workers |-> NoItem]
    /\ result = [w \in Workers |-> NoResult]
    /\ reg = [w \in Workers |-> NoReg]
    /\ sp = [w \in Workers |-> << >>]
    /\ calls = [w \in Workers |-> << >>]
    /\ orch = "lock"
    /\ orch_i = 1
    /\ printer = "p_lock"
    /\ interrupted = FALSE
    /\ all_empty = FALSE
    /\ load_failed = {}

\* a first run: the output directory is empty
InitCommon(threads) ==
    /\ InitThreads(threads)
    /\ output_files = {}
    /\ error_files = {}
    /\ retry_failed = FALSE
    /\ ctx = NoCtx
    /\ geo = NoGeo
    /\ hist = NoHist
    /\ walk = NoWalk
    /\ opt = NoOpt

\* one worker thread per stage
OneEach == {1, 2, 4}

\* the threads of THREAD_CONFIG: NumThreads[s] workers for stage s
AllThreads == {w \in Workers : \E s \in Stages : StageOf(w) = s /\ NumThreads[s] >= 1}

Init == InitCommon(OneEach) /\ verbose = FALSE

InitRace == InitCommon(AllThreads) /\ verbose = FALSE

InitVerbose == InitCommon(OneEach) /\ verbose = TRUE

InitStats == InitCommon({1, 2, 3}) /\ verbose = FALSE

\* a later run: artifacts of earlier runs are in the output directory
InitRetry ==
    /\ InitThreads(OneEach) /\ verbose = FALSE
    /\ output_files \in SUBSET Files
    /\ error_files \in SUBSET Files
    /\ retry_failed \in BOOLEAN
    /\ ctx = NoCtx
    /\ geo = NoGeo
    /\ hist = NoHist
    /\ walk = NoWalk
    /\ opt = NoOpt

\* a second run over an unchanged tree: every input file has its primary
\* artifact; two skip-check threads
InitResume ==
    /\ InitThreads({1, 2, 3}) /\ verbose = FALSE
    /\ output_files = Files
    /\ error_files \in SUBSET Files
    /\ retry_failed \in BOOLEAN
    /\ ctx = NoCtx
    /\ geo = NoGeo
    /\ hist = NoHist
    /\ walk = NoWalk
    /\ opt = NoOpt

\* a call of ContextTask.execute, no pipeline thread running
InitContext ==
    /\ InitThreads({}) /\ verbose = FALSE
    /\ output_files = {} /\ error_files = {} /\ retry_failed = FALSE
    /\ ctx \in CtxInputs
    /\ geo = NoGeo
    /\ hist = NoHist
    /\ walk = NoWalk
    /\ opt = NoOpt

\* a call of ContextTask.execute over described images
InitScore ==
    /\ InitThreads({}) /\ verbose = FALSE
    /\ output_files = {} /\ error_files = {} /\ retry_failed = FALSE
    /\ ctx \in CtxScoreInputs(WideMetas)
    /\ geo = NoGeo
    /\ hist = NoHist
    /\ walk = NoWalk
    /\ opt = NoOpt

\* a geolocate stage with one worker thread, max_retries as constructed
InitGeo ==
    /\ InitThreads({2}) /\ verbose = FALSE
    /\ output_files = {} /\ error_files = {} /\ retry_failed = FALSE
    /\ ctx = NoCtx
    /\ geo \in {GeoState(n) : n \in 0..MaxRetries}
    /\ hist = NoHist
    /\ walk = NoWalk
    /\ opt = NoOpt

\* a call of _get_nearby_images on an image file of the tree under Root
InitWalk ==
    /\ InitThreads({2}) /\ verbose = FALSE
    /\ output_files = {} /\ error_files = {} /\ retry_failed = FALSE
    /\ ctx = NoCtx
    /\ geo = NoGeo
    /\ hist = NoHist
    /\ walk \in WalkInputs
    /\ opt = NoOpt

\* a run of llm-describe-directory-opt.py from the start of its worker threads
InitOpt ==
    /\ InitThreads({}) /\ verbose = FALSE
    /\ output_files = {} /\ error_files = {} /\ retry_failed = FALSE
    /\ ctx = NoCtx
    /\ geo = NoGeo
    /\ hist = NoHist
    /\ walk = NoWalk
    /\ opt = OptStart

InitPriority == InitCommon({1}) /\ verbose = FALSE

\* the two threads of a generic stage and the thread of its successor
InitBackpressure == InitCommon({2, 3, 4}) /\ verbose = FALSE

InitFifo == InitCommon({2, 3}) /\ verbose = FALSE

(* ------------------------------------------------------------------ *)
(* Worker thread: Pipeline._worker_thread                               *)
(* ------------------------------------------------------------------ *)
\* unchanged groups
uQueues == <<heap_queue, counter, queue, pending_queue>>
uStats == <<total, recent, reg, sp>>
uFiles == <<output_files, error_files, retry_failed, ctx, geo, hist, walk, opt>>
uOrchRest == <<orch, orch_i, printer, interrupted, all_empty, verbose, load_failed,
               output_files, error_files, retry_failed, ctx, geo, walk, opt>>
uOrch == <<orch, orch_i, printer, interrupted, all_empty, verbose, load_failed, uFiles>>
uWorkers == <<pc, item, result, reg, sp, calls>>

\* worker w goes on at p with result res and disposition history cl; back at
\* the loop test the locals of the finished iteration are dead and are cleared
GoOn(w, p, res, cl) ==
    /\ pc' = [pc EXCEPT ![w] = p]
    /\ item' = [item EXCEPT ![w] = IF p \in {"sn_cap", "unload"} THEN NoItem ELSE @]
    /\ result' = [result EXCEPT ![w] = IF p \in {"sn_cap", "unload"} THEN NoResult ELSE res]
    /\ calls' = [calls EXCEPT ![w] = IF p \in {"sn_cap", "unload"} THEN << >> ELSE cl]

\* task.load()
Load(w) ==
    /\ Running /\ pc[w] = "load"
    /\ pc' = [pc EXCEPT ![w] = LoopTop]
    /\ UNCHANGED <<uQueues, active, uStats, stop_event, status_lock, item, result,
                   calls, uOrch>>

\* task.load() raises: the exception leaves the outer try through its finally
\* clause (task.unload()) and ends the thread
LoadFail(w) ==
    /\ Running /\ pc[w] = "load"
    /\ pc' = [pc EXCEPT ![w] = "unload"]
    /\ load_failed' = load_failed \cup {w}
    /\ UNCHANGED <<uQueues, active, uStats, stop_event, status_lock, item, result,
                   calls, orch, orch_i, printer, interrupted, all_empty, verbose,
                   uFiles>>

\* item = task.start_next(...), first check of start_next; on None the worker
\* sleeps and takes the loop test again
StartNextCapacity(w) ==
    /\ Running /\ pc[w] = "sn_cap"
    /\ pc' = [pc EXCEPT ![w] = IF NoCapacity(StageOf(w)) THEN LoopTop ELSE "sn_gate"]
    /\ UNCHANGED <<uQueues, active, uStats, stop_event, status_lock, item, result,
                   calls, uOrch>>

\* start_next with the item taken before the downstream check
StartNextGateAfterPop(w) ==
    /\ Running /\ pc[w] = "sn_gate"
    /\ pc' = [pc EXCEPT ![w] = IF GateClosed(StageOf(w)) THEN LoopTop ELSE "sn_pop"]
    /\ IF GateClosed(StageOf(w)) /\ StageOf(w) # Discover
       THEN queue' = [queue EXCEPT ![StageOf(w)] = Tail(@)]
       ELSE queue' = queue
    /\ IF GateClosed(StageOf(w)) /\ StageOf(w) = Discover
       THEN heap_queue' = HeapRest(heap_queue)
       ELSE heap_queue' = heap_queue
    /\ UNCHANGED <<counter, pending_queue, active, uStats, stop_event, status_lock,
                   item, result, calls, uOrch>>

\* start_next, downstream check
StartNextGate(w) ==
    /\ Running /\ pc[w] = "sn_gate"
    /\ pc' = [pc EXCEPT ![w] = IF GateClosed(StageOf(w)) THEN LoopTop ELSE "sn_pop"]
    /\ UNCHANGED <<uQueues, active, uStats, stop_event, status_lock, item, result,
                   calls, uOrch>>

\* start_next, item = self.queue.pop(0); on an empty list pop raises IndexError,
\* which is outside the inner try and ends the thread through the finally clause.
\* DiscoverTask: if self._heap_queue: heappop, else return None
StartNextPop(w) ==
    /\ Running /\ pc[w] = "sn_pop"
    /\ LET s == StageOf(w) IN
       IF s = Discover
       THEN IF heap_queue = << >>
            THEN /\ pc' = [pc EXCEPT ![w] = LoopTop]
                 /\ UNCHANGED <<heap_queue, queue, item>>
            ELSE /\ item' = [item EXCEPT ![w] = heap_queue[HeapMinIndex(heap_queue)][3]]
                 /\ heap_queue' = HeapRest(heap_queue)
                 /\ pc' = [pc EXCEPT ![w] = "sn_append"]
                 /\ UNCHANGED queue
       ELSE IF queue[s] = << >>
            THEN /\ pc' = [pc EXCEPT ![w] = "unload"]
                 /\ UNCHANGED <<heap_queue, queue, item>>
            ELSE /\ item' = [item EXCEPT ![w] = Head(queue[s])]
                 /\ queue' = [queue EXCEPT ![s] = Tail(queue[s])]
                 /\ pc' = [pc EXCEPT ![w] = "sn_append"]
                 /\ UNCHANGED heap_queue
    /\ UNCHANGED <<counter, pending_queue, active, uStats, stop_event, status_lock,
                   result, calls, uOrch>>

\* start_next, self.active.append(item); return item
StartNextAppend(w) ==
    /\ Running /\ pc[w] = "sn_append"
    /\ active' = [active EXCEPT ![StageOf(w)] = Append(@, item[w])]
    /\ pc' = [pc EXCEPT ![w] = "execute"]
    /\ UNCHANGED <<uQueues, uStats, stop_event, status_lock, item, result, calls, uOrch>>

\* result = task.execute(item); is_rejected = check_rejection(result).
\* DiscoverTask.execute lists the directory; SkipCheckTask.execute returns
\* (should_skip, path); the last stage returns the path it wrote; the
\* executes of the other stages may raise
Execute(w) ==
    /\ Running /\ pc[w] = "execute"
    /\ LET s == StageOf(w) IN
       IF s = Discover
       THEN /\ result' = [result EXCEPT ![w] = ListDir(item[w].p)]
            /\ pc' = [pc EXCEPT ![w] = "finish"]
            /\ hist' = IF item[w].p \in Dirs
                       THEN [hist EXCEPT !.exec[item[w].p] = @ + 1,
                                         !.order = Append(@, item[w].p)]
                       ELSE hist
       ELSE \E outcome \in {"raise", "skip", "ok"} :
               /\ outcome = "skip" => HasCheckRejection(s)
               /\ result' = [result EXCEPT ![w] =
                     IF outcome = "raise" THEN NoResult
                     ELSE [t |-> IF HasCheckRejection(s) THEN "tuple" ELSE "scalar",
                           out |-> <<Str(item[w].p)>>, pend |-> << >>,
                           skip |-> (outcome = "skip")]]
               /\ pc' = [pc EXCEPT ![w] =
                     IF outcome = "raise" THEN "except"
                     ELSE IF outcome = "skip" THEN "reject" ELSE "finish"]
               /\ UNCHANGED hist
    /\ UNCHANGED <<uQueues, active, uStats, stop_event, status_lock, item, calls,
                   uOrchRest>>

\* DiscoverTask.execute of a directory of the tree whose listing succeeds
ExecuteListed(w) == StageOf(w) = Discover /\ item[w].p \in Dirs /\ Execute(w)

\* DiscoverTask.execute of a path that is not a directory, or whose
\* os.listdir raises: the message is printed and discovered_files, the empty
\* list, is returned (a list, not the pair of the normal return)
ExecuteUnreadable(w) ==
    /\ Running /\ pc[w] = "execute" /\ StageOf(w) = Discover
    /\ \E listable \in BOOLEAN :
          /\ item[w].p \notin Dirs \/ ~listable
          /\ result' = [result EXCEPT ![w] =
                [t |-> "list", out |-> << >>, pend |-> << >>, skip |-> FALSE]]
    /\ pc' = [pc EXCEPT ![w] = "finish"]
    /\ UNCHANGED <<uQueues, active, uStats, stop_event, status_lock, item, calls, uOrch>>

\* result = task.execute(item) of the discover worker on the branching tree
ExecuteWide(w) ==
    /\ Running /\ pc[w] = "execute" /\ StageOf(w) = Discover
    /\ result' = [result EXCEPT ![w] = ListWide(item[w].p)]
    /\ pc' = [pc EXCEPT ![w] = "finish"]
    /\ hist' = [hist EXCEPT !.order = Append(@, item[w].p)]
    /\ UNCHANGED <<uQueues, active, uStats, stop_event, status_lock, item, calls,
                   uOrchRest>>

\* TaskStats.finish(n) / TaskStats.fail() / TaskStats.reject() on one stats object
StatsAfter(st, call, n) ==
    IF call = "finish"
    THEN [st EXCEPT !.done = @ + 1, !.input = @ + 1, !.output = @ + n]
    ELSE IF call = "fail"
    THEN [st EXCEPT !.failed = @ + 1, !.input = @ + 1]
    ELSE [st EXCEPT !.rejected = @ + 1, !.input = @ + 1]

\* Task.finish / Task.fail / Task.reject:
\* if item in self.active: self.active.remove(item);
\* self.recent.<call>(); self.total.<call>()
\* (the call taken as one step; its interleavings are the subject of SpecStats)
Dispose(w) ==
    /\ Running /\ pc[w] \in {"finish", "fail", "reject"}
    /\ LET s == StageOf(w) IN
       /\ active' = [active EXCEPT ![s] = IF InSeq(@, item[w]) THEN RemoveFirst(@, item[w]) ELSE @]
       /\ recent' = [recent EXCEPT ![s] = StatsAfter(@, pc[w], OutputCount(s, result[w]))]
       /\ total' = [total EXCEPT ![s] = StatsAfter(@, pc[w], OutputCount(s, result[w]))]
    /\ GoOn(w, IF pc[w] = "finish" THEN AfterFinish(w) ELSE LoopTop,
            result[w], Append(calls[w], pc[w]))
    /\ UNCHANGED <<uQueues, reg, sp, stop_event, status_lock, uOrch>>

\* if self.verbose: with self.status_lock: task_completed_items[...].append(...)
VerboseTrack(w) ==
    /\ Running /\ pc[w] = "vb_lock" /\ status_lock = None
    /\ pc' = [pc EXCEPT ![w] = "vb_print"]
    /\ UNCHANGED <<uQueues, active, uStats, stop_event, status_lock, item, result,
                   calls, uOrch>>

\* self._format_and_print_status(...); task_completed_items.clear();
\* for t in tasks: t.reset_recent()   -- outside the lock; print may raise
VerbosePrint(w) ==
    /\ Running /\ pc[w] = "vb_print"
    /\ \E ok \in BOOLEAN :
          /\ GoOn(w, IF ok THEN AfterVerbose(w) ELSE "except", result[w], calls[w])
          /\ recent' = IF ok THEN [s \in Stages |-> ZeroStats] ELSE recent
    /\ UNCHANGED <<uQueues, active, total, reg, sp, stop_event, status_lock, uOrch>>

\* task.pending_queue.extend(pending_items) without taking the status lock
PendingExtendUnlocked(w) ==
    /\ Running /\ pc[w] = "pending"
    /\ pending_queue' = pending_queue \o result[w].pend
    /\ GoOn(w, AfterPending(w), [result[w] EXCEPT !.pend = << >>], calls[w])
    /\ UNCHANGED <<heap_queue, counter, queue, active, uStats, stop_event, status_lock,
                   uOrch>>

\* with self.status_lock: task.pending_queue.extend(pending_items)
PendingExtend(w) ==
    /\ Running /\ pc[w] = "pending" /\ status_lock = None
    /\ pending_queue' = pending_queue \o result[w].pend
    /\ GoOn(w, AfterPending(w), [result[w] EXCEPT !.pend = << >>], calls[w])
    /\ UNCHANGED <<heap_queue, counter, queue, active, uStats, stop_event, status_lock,
                   uOrch>>

\* result = transform(result); for r in result: next_task.add(r)
\* (one next_task.add per step)
Forward(w) ==
    /\ Running /\ pc[w] = "forward"
    /\ queue' = [queue EXCEPT ![NextTask(StageOf(w))] = Append(@, Head(result[w].out))]
    /\ GoOn(w, IF Tail(result[w].out) = << >> THEN LoopTop ELSE "forward",
            [result[w] EXCEPT !.out = Tail(@)], calls[w])
    /\ hist' = IF StageOf(w) = Discover /\ Head(result[w].out).p \in Files
               THEN [hist EXCEPT !.fwd[Head(result[w].out).p] = @ + 1] ELSE hist
    /\ UNCHANGED <<heap_queue, counter, pending_queue, active, uStats, stop_event,
                   status_lock, uOrchRest>>

\* except Exception as e: if next_task is not None:
\*     if isinstance(item, tuple) and len(item) >= 1: next_task.add((item[0], e))
Except(w) ==
    /\ Running /\ pc[w] = "except"
    /\ LET s == StageOf(w) IN
       IF NextTask(s) # NoTask /\ IsTuple(item[w])
       THEN queue' = [queue EXCEPT ![NextTask(s)] = Append(@, Tup(item[w].p, "error"))]
       ELSE UNCHANGED queue
    /\ pc' = [pc EXCEPT ![w] = "fail"]
    /\ UNCHANGED <<heap_queue, counter, pending_queue, active, uStats, stop_event,
                   status_lock, item, result, calls, uOrch>>

\* SkipCheckTask.execute of the describe pipeline's kind (check_input_exists
\* False): should_skip for input file p, from what exists under output_dir
ShouldSkipAnyError(p) == ~skip_all /\ (p \in output_files \/ p \in error_files)
ShouldSkip(p) == ~skip_all /\ (p \in output_files \/ (~retry_failed /\ p \in error_files))

\* result = task.execute(item) of a skip-check worker: (should_skip, input_path);
\* is_rejected = check_rejection(result)
SkipCheckExecute(w) ==
    /\ Running /\ pc[w] = "execute" /\ StageOf(w) = Check
    /\ result' = [result EXCEPT ![w] =
          [t |-> "tuple", out |-> <<Str(item[w].p)>>, pend |-> << >>,
           skip |-> ShouldSkip(item[w].p)]]
    /\ pc' = [pc EXCEPT ![w] = IF ShouldSkip(item[w].p) THEN "reject" ELSE "finish"]
    /\ UNCHANGED <<uQueues, active, uStats, stop_event, status_lock, item, calls, uOrch>>

\* result = task.execute(item) of a write worker: an item carrying an
\* exception becomes the error artifact; any other becomes the primary
\* artifact, and the error artifact of the file is removed if there is one
WriteExecute(w) ==
    /\ Running /\ pc[w] = "execute" /\ StageOf(w) = Write
    /\ LET p == item[w].p IN
       /\ IF IsTuple(item[w]) /\ item[w].v = "error"
          THEN /\ error_files' = error_files \cup {p}
               /\ UNCHANGED output_files
          ELSE /\ output_files' = output_files \cup {p}
               /\ error_files' = error_files \ {p}
       /\ result' = [result EXCEPT ![w] =
             [t |-> "scalar", out |-> <<Str(p)>>, pend |-> << >>, skip |-> FALSE]]
    /\ pc' = [pc EXCEPT ![w] = "finish"]
    /\ UNCHANGED <<uQueues, active, uStats, stop_event, status_lock, item, calls,
                   orch, orch_i, printer, interrupted, all_empty, verbose, load_failed,
                   retry_failed, ctx, geo, hist, walk, opt>>

\* ContextTask.execute up to candidates_to_check: without an original
\* description the call returns (input_path, "", []) at once
ContextNearby ==
    /\ ctx.phase = "input"
    /\ ctx' = IF HasDescription(ctx, ctx.input_path)
              THEN [ctx EXCEPT !.phase = "nearby", !.candidates = GetNearbyImages(ctx)]
              ELSE [ctx EXCEPT !.phase = "done"]
    /\ UNCHANGED <<uQueues, active, uStats, stop_event, status_lock, uWorkers,
                   orch, orch_i, printer, interrupted, all_empty, verbose, load_failed,
                   output_files, error_files, retry_failed, geo, hist, walk, opt>>

\* ContextTask.execute from the loop over candidates_to_check to its return
ContextGather ==
    /\ ctx.phase = "nearby"
    /\ ctx' = [ctx EXCEPT !.phase = "done", !.context = ContextDescriptions(ctx)]
    /\ UNCHANGED <<uQueues, active, uStats, stop_event, status_lock, uWorkers,
                   orch, orch_i, printer, interrupted, all_empty, verbose, load_failed,
                   output_files, error_files, retry_failed, geo, hist, walk, opt>>

\* the variables a step of _get_nearby_images leaves alone
uWalkRest == <<uQueues, active, uStats, stop_event, status_lock, uWorkers,
               orch, orch_i, printer, interrupted, all_empty, verbose, load_failed,
               output_files, error_files, retry_failed, ctx, geo, hist, opt>>

\* the images the running loop has collected
WalkImages(k) == IF k.phase = "up" THEN k.all_up_images ELSE k.all_down_images

\* while any(dirs_to_discover.values()) and len(images) < self.max_context_items * 2
WalkGoesOn(k) == k.needs # {} /\ Len(WalkImages(k)) < k.max_context_items * 2

\* one iteration of the running while loop: the chosen directory is marked
\* False and listed, the kept subdirectories that are not yet keys are added
\* with True, the kept image files are appended, and the parent directory is
\* added with True when it starts with root_path and is not yet a key
WalkExpand ==
    /\ walk.phase \in {"up", "down"}
    /\ WalkGoesOn(walk)
    /\ LET d == WalkPick(walk.phase, walk.needs)
           kept == {x \in WalkEntries(d) : WalkKeeps(walk.phase, x, walk.input_path)}
           subdirs == {x \in kept : WalkIsDir(x) /\ x \notin walk.keys}
           files == AscendingPaths({x \in kept : ~WalkIsDir(x)})
           keys1 == walk.keys \cup subdirs
           parent_dir == Dirname(d)
           parents == IF StartsWith(parent_dir, Root) /\ parent_dir \notin keys1
                      THEN {parent_dir} ELSE {}
       IN walk' = [walk EXCEPT
                     !.keys = keys1 \cup parents,
                     !.needs = (@ \ {d}) \cup subdirs \cup parents,
                     !.all_up_images = IF walk.phase = "up" THEN @ \o files ELSE @,
                     !.all_down_images = IF walk.phase = "down" THEN @ \o files ELSE @,
                     !.listed_up = IF walk.phase = "up" THEN Append(@, d) ELSE @,
                     !.listed_down = IF walk.phase = "down" THEN Append(@, d) ELSE @]
    /\ UNCHANGED uWalkRest

\* the running loop ends: the first is followed by the second, which starts
\* from dirs_to_discover = {current_dir: True}; the second by the scoring
WalkSwitch ==
    /\ walk.phase \in {"up", "down"}
    /\ ~WalkGoesOn(walk)
    /\ walk' = IF walk.phase = "up"
               THEN [walk EXCEPT !.phase = "down",
                                 !.keys = {Dirname(walk.input_path)},
                                 !.needs = {Dirname(walk.input_path)}]
               ELSE [walk EXCEPT !.phase = "done"]
    /\ UNCHANGED uWalkRest

\* the variables a step of llm-describe-directory-opt.py leaves alone
uOptRest == <<uQueues, active, uStats, stop_event, status_lock, uWorkers,
              orch, orch_i, printer, interrupted, all_empty, verbose, load_failed,
              output_files, error_files, retry_failed, ctx, geo, hist, walk>>

\* main, discovery: download_queue.put(input_path) for the next image found
OptDiscover ==
    /\ opt # NoOpt /\ ~opt.stop_event
    /\ opt.discovered < OptImages
    /\ opt' = [opt EXCEPT !.discovered = @ + 1,
                          !.download_queue = Append(@, opt.discovered + 1)]
    /\ UNCHANGED uOptRest

\* signal_handler: stop_event.set()
OptInterrupt ==
    /\ opt # NoOpt /\ ~opt.stop_event
    /\ opt' = [opt EXCEPT !.stop_event = TRUE]
    /\ UNCHANGED uOptRest

\* download_worker: while not stop_event.is_set(): input_path =
\* download_queue.get(timeout=0.5); acquired = False.  On queue.Empty the
\* loop test is taken again; with the stop flag set the thread ends
DownloadGet(d) ==
    /\ opt # NoOpt /\ opt.dpc[d] = "get"
    /\ IF opt.stop_event
       THEN opt' = [opt EXCEPT !.dpc[d] = "exit"]
       ELSE /\ opt.download_queue # << >>
            /\ opt' = [opt EXCEPT !.dpc[d] = "acquire",
                                  !.input_path[d] = Head(opt.download_queue),
                                  !.download_queue = Tail(@),
                                  !.acquired[d] = FALSE]
    /\ UNCHANGED uOptRest

\* while not stop_event.is_set():
\*     acquired = llm_queue_semaphore.acquire(timeout=0.5); if acquired: break
\* (a timed-out acquire takes the loop test again)
DownloadAcquire(d) ==
    /\ opt # NoOpt /\ opt.dpc[d] = "acquire"
    /\ IF opt.stop_event
       THEN opt' = [opt EXCEPT !.dpc[d] = "stop_check"]
       ELSE /\ opt.llm_queue_semaphore > 0
            /\ opt' = [opt EXCEPT !.dpc[d] = "stop_check",
                                  !.llm_queue_semaphore = @ - 1,
                                  !.acquired[d] = TRUE,
                                  !.acq[opt.input_path[d]] = @ + 1]
    /\ UNCHANGED uOptRest

\* if stop_event.is_set(): a release whether or not the slot was acquired
DownloadStopCheckAlways(d) ==
    /\ opt # NoOpt /\ opt.dpc[d] = "stop_check"
    /\ IF opt.stop_event
       THEN opt' = [opt EXCEPT !.dpc[d] = "get",
                               !.llm_queue_semaphore = @ + 1,
                               !.rel[opt.input_path[d]] = @ + 1,
                               !.fate[opt.input_path[d]] = "stopped"]
       ELSE opt' = [opt EXCEPT !.dpc[d] = "download"]
    /\ UNCHANGED uOptRest

\* if stop_event.is_set(): if acquired: llm_queue_semaphore.release();
\* download_queue.task_done(); continue
DownloadStopCheck(d) ==
    /\ opt # NoOpt /\ opt.dpc[d] = "stop_check"
    /\ IF opt.stop_event
       THEN opt' = [opt EXCEPT !.dpc[d] = "get",
                               !.llm_queue_semaphore = IF opt.acquired[d] THEN @ + 1 ELSE @,
                               !.rel[opt.input_path[d]] = IF opt.acquired[d] THEN @ + 1 ELSE @,
                               !.fate[opt.input_path[d]] = "stopped"]
       ELSE opt' = [opt EXCEPT !.dpc[d] = "download"]
    /\ UNCHANGED uOptRest

\* try: image_handle = lms.prepare_image(input_path); llm_queue.put(...)
\* except Exception: llm_queue_semaphore.release()
Download(d) ==
    /\ opt # NoOpt /\ opt.dpc[d] = "download"
    /\ \E ok \in BOOLEAN :
          opt' = IF ok
                 THEN [opt EXCEPT !.dpc[d] = "get",
                                  !.llm_queue = Append(@, opt.input_path[d]),
                                  !.fate[opt.input_path[d]] = "queued"]
                 ELSE [opt EXCEPT !.dpc[d] = "get",
                                  !.llm_queue_semaphore = @ + 1,
                                  !.rel[opt.input_path[d]] = @ + 1,
                                  !.fate[opt.input_path[d]] = "download_error"]
    /\ UNCHANGED uOptRest

\* llm_worker: while not stop_event.is_set():
\*     input_path, image_handle = llm_queue.get(timeout=0.5)
LlmGet(l) ==
    /\ opt # NoOpt /\ opt.lpc[l] = "get"
    /\ IF opt.stop_event
       THEN opt' = [opt EXCEPT !.lpc[l] = "exit"]
       ELSE /\ opt.llm_queue # << >>
            /\ opt' = [opt EXCEPT !.lpc[l] = "respond",
                                  !.llm_path[l] = Head(opt.llm_queue),
                                  !.llm_queue = Tail(@),
                                  !.fate[Head(opt.llm_queue)] = "llm"]
    /\ UNCHANGED uOptRest

\* try: model.respond(chat), write the output file; except Exception: count
\* the failure
LlmRespond(l) ==
    /\ opt # NoOpt /\ opt.lpc[l] = "respond"
    /\ \E ok \in BOOLEAN :
          opt' = [opt EXCEPT !.lpc[l] = "release",
                             !.fate[opt.llm_path[l]] = IF ok THEN "llmed" ELSE "llm_failed"]
    /\ UNCHANGED uOptRest

\* llm_queue.task_done(); llm_queue_semaphore.release()
LlmRelease(l) ==
    /\ opt # NoOpt /\ opt.lpc[l] = "release"
    /\ opt' = [opt EXCEPT !.lpc[l] = "get",
                          !.llm_queue_semaphore = @ + 1,
                          !.rel[opt.llm_path[l]] = @ + 1]
    /\ UNCHANGED uOptRest

\* the variables a step of GeolocationTask.execute leaves alone
uGeoRest == <<uQueues, active, uStats, stop_event, status_lock, item, calls,
              orch, orch_i, printer, interrupted, all_empty, verbose, load_failed,
              output_files, error_files, retry_failed, ctx, hist, walk, opt>>

\* what GeolocationTask.execute returns for path p: (image_path, location_str)
GeoResult(p, loc) ==
    [t |-> "scalar", out |-> <<Tup(p, loc)>>, pend |-> << >>, skip |-> FALSE]

\* GeolocationTask.execute up to the call of _reverse_geocode_with_retry:
\* extract_gps_location may find nothing, find coordinates, or raise
GeocodeStart(w) ==
    /\ Running /\ pc[w] = "execute" /\ StageOf(w) = Check
    /\ \E gps \in {"none", "found", "raise"} :
          /\ geo' = [geo EXCEPT !.attempt[w] = 0, !.wait_time[w] = initial_wait_seconds,
                                 !.last[w] = "none"]
          /\ pc' = [pc EXCEPT ![w] = IF gps = "none" THEN "finish"
                                     ELSE IF gps = "found" THEN "geocode" ELSE "except"]
          /\ result' = [result EXCEPT ![w] =
                IF gps = "none" THEN GeoResult(item[w].p, None) ELSE @]
    /\ UNCHANGED uGeoRest

\* one round of for attempt in range(self.max_retries): the call of
\* geolocator.reverse and what follows it. An exhausted range ends the
\* function without a return statement (None)
GeocodeAttempt(w) ==
    /\ Running /\ pc[w] = "geocode"
    /\ LET i == geo.attempt[w] n == geo.max_retries IN
       IF i >= n
       THEN /\ result' = [result EXCEPT ![w] = GeoResult(item[w].p, None)]
            /\ pc' = [pc EXCEPT ![w] = "finish"]
            /\ UNCHANGED geo
       ELSE \E o \in {"address", "nothing", "network", "geopy"} :
              /\ geo' = [geo EXCEPT !.attempt[w] = i + 1, !.last[w] = o,
                            !.wait_time[w] =
                                IF o = "network" /\ RetryAllowed(i, n) THEN 2 * @ ELSE @]
              /\ result' = [result EXCEPT ![w] =
                    IF o = "address" THEN GeoResult(item[w].p, "address")
                    ELSE IF o = "nothing" THEN GeoResult(item[w].p, None) ELSE @]
              /\ pc' = [pc EXCEPT ![w] =
                    IF o \in {"address", "nothing"} THEN "finish"
                    ELSE IF o = "network" /\ RetryAllowed(i, n) THEN "geocode"
                    ELSE "except"]
    /\ UNCHANGED uGeoRest

\* finally: task.unload(); the thread ends
Unload(w) ==
    /\ Running /\ pc[w] = "unload"
    /\ pc' = [pc EXCEPT ![w] = "dead"]
    /\ UNCHANGED <<uQueues, active, uStats, stop_event, status_lock, item, result,
                   calls, uOrch>>

(* ------------------------------------------------------------------ *)
(* A caller of task.add                                                 *)
(* ------------------------------------------------------------------ *)
\* the path of depth d named k: d separators, last component k
PathOf(d, k) == [i \in 1..(d + 1) |-> IF i = d + 1 THEN k ELSE 0]

\* the paths a caller may add
Paths == {PathOf(d, k) : d \in 0..MaxDepth, k \in 0..1}

\* list.insert(0, item) in place of list.append(item)
EnqueueFront(q, x) == <<x>> \o q

\* Task.add: self.queue.append(item)
Enqueue(q, x) == Append(q, x)

\* the items task s has been given so far: queued, taken, active or disposed of
Added(s) ==
    QueueLen(s) + Len(active[s]) + total[s].input
        + Cardinality({w \in Workers : StageOf(w) = s /\ pc[w] = "sn_append"})

\* task.add(path) called on task s by a thread outside the worker loops
AddPath(s, p) ==
    /\ Running
    /\ IF s = Discover
       THEN /\ counter < MaxAdds + 1
            /\ heap_queue' = HeapAdd(heap_queue, counter, Str(p))
            /\ counter' = counter + 1
            /\ UNCHANGED queue
       ELSE /\ Added(s) < MaxAdds
            /\ queue' = [queue EXCEPT ![s] = Enqueue(@, Str(p))]
            /\ UNCHANGED <<heap_queue, counter>>
    /\ UNCHANGED <<pending_queue, active, uStats, stop_event, status_lock, uWorkers, uOrch>>

\* a caller of start_next that does nothing with the item it got but hand it
\* back: task.finish(item, 0)
TakeOnly(w) ==
    /\ Running /\ pc[w] = "execute"
    /\ pc' = [pc EXCEPT ![w] = "finish"]
    /\ UNCHANGED <<uQueues, active, uStats, stop_event, status_lock, item, result,
                   calls, uOrch>>

(* ------------------------------------------------------------------ *)
(* Status printer thread: Pipeline._status_printer                      *)
(* ------------------------------------------------------------------ *)
\* with self.status_lock:
PrinterAcquire ==
    /\ Running /\ printer = "p_lock" /\ status_lock = None
    /\ status_lock' = "printer"
    /\ printer' = "p_print"
    /\ UNCHANGED <<uQueues, active, total, recent, stop_event, uWorkers,
                   orch, orch_i, interrupted, all_empty, verbose, load_failed, uFiles>>

\* print; task_completed_items.clear(); for task: task.reset_recent()
PrinterPrint ==
    /\ Running /\ printer = "p_print"
    /\ recent' = [s \in Stages |-> ZeroStats]
    /\ printer' = "p_flush"
    /\ UNCHANGED <<uQueues, active, total, stop_event, status_lock, uWorkers,
                   orch, orch_i, interrupted, all_empty, verbose, load_failed, uFiles>>

\* for item in task.pending_queue: task.add(item), one add per step;
\* task.pending_queue.clear(); then the lock is released, the thread sleeps
\* and takes its loop test (while not self.stop_event.is_set())
PrinterFlush ==
    /\ Running /\ printer = "p_flush"
    /\ IF pending_queue # << >>
       THEN /\ heap_queue' = HeapAdd(heap_queue, counter, Head(pending_queue))
            /\ counter' = counter + 1
            /\ pending_queue' = Tail(pending_queue)
            /\ UNCHANGED <<status_lock, printer>>
       ELSE /\ status_lock' = None
            /\ printer' = IF stop_event THEN "p_dead" ELSE "p_lock"
            /\ UNCHANGED <<heap_queue, counter, pending_queue>>
    /\ UNCHANGED <<queue, active, total, recent, stop_event, uWorkers,
                   orch, orch_i, interrupted, all_empty, verbose, load_failed, uFiles>>

(* ------------------------------------------------------------------ *)
(* Main thread: Pipeline._run_pipeline                                  *)
(* ------------------------------------------------------------------ *)
\* signal_handler: self.stop_event.set()
Interrupt ==
    /\ orch \notin {"done", "exited"} /\ ~stop_event
    /\ stop_event' = TRUE
    /\ interrupted' = TRUE
    /\ UNCHANGED <<uQueues, active, total, recent, status_lock, uWorkers, orch, orch_i,
                   printer, all_empty, verbose, load_failed, uFiles>>

\* with self.status_lock:   (inside while not self.stop_event.is_set())
OrchAcquire ==
    /\ orch = "lock" /\ status_lock = None
    /\ status_lock' = "orch"
    /\ orch' = "check"
    /\ orch_i' = 1
    /\ UNCHANGED <<uQueues, active, total, recent, stop_event, uWorkers,
                   printer, interrupted, all_empty, verbose, load_failed, uFiles>>

\* one task of the all(...) generator
TaskEmpty(s) ==
    /\ QueueLen(s) = 0
    /\ Len(active[s]) = 0
    /\ (~HasPendingQueue(s) \/ Len(pending_queue) = 0)

\* all_empty = all(... for task in self.tasks.values()), one task per step;
\* if all_empty: break; else time.sleep(0.5) and the loop test
OrchCheck ==
    /\ orch = "check"
    /\ IF ~TaskEmpty(orch_i)
       THEN /\ all_empty' = FALSE
            /\ status_lock' = None
            /\ orch' = IF stop_event THEN "join" ELSE "lock"
            /\ orch_i' = 1
       ELSE IF orch_i < NumStages
       THEN /\ orch_i' = orch_i + 1
            /\ UNCHANGED <<all_empty, status_lock, orch>>
       ELSE /\ all_empty' = TRUE
            /\ status_lock' = None
            /\ orch' = "join"
            /\ orch_i' = 1
    /\ UNCHANGED <<uQueues, active, total, recent, stop_event, uWorkers,
                   printer, interrupted, verbose, load_failed, uFiles>>

\* for t in threads: t.join(timeout=2.0); status_thread.join(timeout=1.0);
\* the while threads_alive loop, whose body clears threads_alive and so runs
\* once; print("Done. Final update:"); the final status
OrchJoin ==
    /\ orch = "join"
    /\ orch' = "done"
    /\ UNCHANGED <<uQueues, active, total, recent, stop_event, status_lock, uWorkers,
                   orch_i, printer, interrupted, all_empty, verbose, load_failed, uFiles>>

\* _run_pipeline returns and the process ends; the daemon threads end with it
ProcessExit ==
    /\ orch = "done"
    /\ orch' = "exited"
    /\ UNCHANGED <<uQueues, active, total, recent, stop_event, status_lock, uWorkers,
                   orch_i, printer, interrupted, all_empty, verbose, load_failed, uFiles>>

(* ------------------------------------------------------------------ *)
(* TaskStats at the granularity of its loads and stores                 *)
(* ------------------------------------------------------------------ *)
\* Task.finish / Task.fail / Task.reject, first statement:
\* if item in self.active: self.active.remove(item)
DisposeCall(w) ==
    /\ Running /\ pc[w] \in {"finish", "fail", "reject"}
    /\ LET s == StageOf(w) IN
       /\ active' = [active EXCEPT ![s] = IF InSeq(@, item[w]) THEN RemoveFirst(@, item[w]) ELSE @]
       /\ sp' = [sp EXCEPT ![w] = StatsOps(pc[w], OutputCount(s, result[w]))]
    /\ calls' = [calls EXCEPT ![w] = Append(@, pc[w])]
    /\ pc' = [pc EXCEPT ![w] = "stats"]
    /\ UNCHANGED <<uQueues, total, recent, reg, stop_event, status_lock, item, result, uOrch>>

\* value of the counter the next TaskStats update is about
StatsValue(w) ==
    LET op == Head(sp[w]) s == StageOf(w)
    IN IF op[1] = "recent" THEN recent[s][op[2]] ELSE total[s][op[2]]

\* self.<counter> += n, the load
StatsRead(w) ==
    /\ Running /\ pc[w] = "stats" /\ reg[w] = NoReg
    /\ reg' = [reg EXCEPT ![w] = StatsValue(w)]
    /\ UNCHANGED <<uQueues, active, total, recent, sp, stop_event, status_lock, pc,
                   item, result, calls, uOrch>>

\* self.<counter> += n, the store; after the last one the call returns
StatsWrite(w) ==
    /\ Running /\ pc[w] = "stats" /\ reg[w] # NoReg
    /\ LET op == Head(sp[w]) s == StageOf(w) IN
       IF op[1] = "recent"
       THEN /\ recent' = [recent EXCEPT ![s][op[2]] = reg[w] + op[3]]
            /\ UNCHANGED total
       ELSE /\ total' = [total EXCEPT ![s][op[2]] = reg[w] + op[3]]
            /\ UNCHANGED recent
    /\ reg' = [reg EXCEPT ![w] = NoReg]
    /\ sp' = [sp EXCEPT ![w] = Tail(@)]
    /\ GoOn(w, IF Tail(sp[w]) # << >> THEN "stats"
               ELSE IF calls[w][Len(calls[w])] = "finish" THEN AfterFinish(w) ELSE LoopTop,
            result[w], calls[w])
    /\ UNCHANGED <<uQueues, active, stop_event, status_lock, uOrch>>

(* ------------------------------------------------------------------ *)
(* Specifications                                                       *)
(* ------------------------------------------------------------------ *)
\* the steps of a worker's loop other than the disposition call
WorkerBody(w) ==
    \/ Load(w)
    \/ StartNextCapacity(w) \/ StartNextGate(w) \/ StartNextPop(w) \/ StartNextAppend(w)
    \/ Execute(w) \/ PendingExtend(w) \/ Forward(w)
    \/ Except(w)

WorkerStep(w) == WorkerBody(w) \/ Dispose(w) \/ Unload(w)

PrinterStep == PrinterAcquire \/ PrinterPrint \/ PrinterFlush

Orchestrate == OrchAcquire \/ OrchCheck \/ OrchJoin \/ ProcessExit

NextRun ==
    \/ \E w \in Workers : WorkerBody(w) \/ Dispose(w)
    \/ PrinterStep

NextRace ==
    \/ \E w \in Workers : WorkerStep(w)
    \/ PrinterStep
    \/ Orchestrate

Next == NextRace \/ Interrupt

NextVerbose ==
    \/ Next
    \/ \E w \in Workers : VerboseTrack(w) \/ VerbosePrint(w)

NextStats ==
    \/ \E w \in Workers :
          WorkerBody(w) \/ Unload(w) \/ DisposeCall(w) \/ StatsRead(w) \/ StatsWrite(w)
    \/ PrinterStep

\* a thread that takes items from its task and hands them back
TakeStep(w) ==
    \/ Load(w)
    \/ StartNextCapacity(w) \/ StartNextGate(w) \/ StartNextPop(w) \/ StartNextAppend(w)
    \/ TakeOnly(w) \/ Dispose(w)

NextPriority ==
    \/ \E w \in Workers : TakeStep(w)
    \/ \E p \in Paths : AddPath(Discover, p)

NextFifo ==
    \/ \E w \in Workers : TakeStep(w) \/ Unload(w)
    \/ \E p \in Paths : AddPath(Check, p)

NextLoad ==
    \/ NextRace
    \/ \E w \in Workers : LoadFail(w)

\* each thread keeps being scheduled, and a thread waiting for status_lock
\* gets it: the lock is released after finitely many steps of its holder
Fairness ==
    /\ \A w \in Workers : WF_vars(WorkerStep(w) \/ LoadFail(w))
    /\ \A w \in Workers : SF_vars(PendingExtend(w))
    /\ WF_vars(PrinterStep) /\ SF_vars(PrinterAcquire)
    /\ WF_vars(Orchestrate) /\ SF_vars(OrchAcquire)

\* an uninterrupted run with one worker per stage in which task.load() may
\* raise, under fair scheduling
SpecLoad == Init /\ [][NextLoad]_vars /\ Fairness

\* the discover task on its own: one thread takes items from it while other
\* threads call add
SpecPriority == InitPriority /\ [][NextPriority]_vars

\* a generic task on its own: two threads take items from it while other
\* threads call add
SpecFifo == InitFifo /\ [][NextFifo]_vars

\* two threads of a generic task from thread start to thread end: load() may
\* raise, SIGINT may set the stop flag, start_next may raise
NextLife ==
    \/ NextFifo
    \/ \E w \in Workers : LoadFail(w)
    \/ Interrupt

SpecLife == InitFifo /\ [][NextLife]_vars

\* the workers of a run over an output directory that holds artifacts: the
\* discover worker lists directories, the skip-check worker looks for the
\* artifacts of each file, the write worker writes
NextRetry ==
    \/ \E w \in Workers :
          \/ Load(w)
          \/ StartNextCapacity(w) \/ StartNextGate(w) \/ StartNextPop(w) \/ StartNextAppend(w)
          \/ (StageOf(w) = Discover /\ Execute(w))
          \/ SkipCheckExecute(w) \/ WriteExecute(w)
          \/ Dispose(w) \/ PendingExtend(w) \/ Forward(w)
    \/ PrinterStep

SpecRetry == InitRetry /\ [][NextRetry]_vars

\* the discover worker and two skip-check workers of a run, with every load
\* and store of the TaskStats counters a step of its own
NextResume ==
    \/ \E w \in Workers :
          \/ Load(w)
          \/ StartNextCapacity(w) \/ StartNextGate(w) \/ StartNextPop(w) \/ StartNextAppend(w)
          \/ (StageOf(w) = Discover /\ Execute(w))
          \/ SkipCheckExecute(w)
          \/ DisposeCall(w) \/ StatsRead(w) \/ StatsWrite(w)
          \/ PendingExtend(w) \/ Forward(w) \/ Unload(w)
    \/ PrinterStep

SpecResume == InitResume /\ [][NextResume]_vars

\* calls of ContextTask.execute
NextContext == ContextNearby \/ ContextGather

SpecContext == InitContext /\ [][NextContext]_vars

\* calls of ContextTask.execute over described images with timestamps in 0..MaxTime
SpecScore == InitScore /\ [][NextContext]_vars

\* a geolocate worker taking paths that other threads add to its task
NextGeo ==
    \/ \E w \in Workers :
          \/ Load(w)
          \/ StartNextCapacity(w) \/ StartNextGate(w) \/ StartNextPop(w) \/ StartNextAppend(w)
          \/ GeocodeStart(w) \/ GeocodeAttempt(w)
          \/ Except(w) \/ Dispose(w) \/ Forward(w)
    \/ \E k \in 0..1 : AddPath(Check, PathOf(0, k))

SpecGeo == InitGeo /\ [][NextGeo]_vars

\* two worker threads of a generic stage whose results go to the queue of the
\* last stage, the worker thread of that stage, and a thread adding paths
NextBackpressure ==
    \/ \E w \in Workers :
          \/ Load(w)
          \/ StartNextCapacity(w) \/ StartNextGate(w) \/ StartNextPop(w) \/ StartNextAppend(w)
          \/ Execute(w) \/ Except(w) \/ Dispose(w) \/ Forward(w)
    \/ \E k \in 0..1 : AddPath(Check, PathOf(0, k))

SpecBackpressure == InitBackpressure /\ [][NextBackpressure]_vars

\* llm-describe-directory-opt.py: discovery, the download threads, the LLM
\* thread and SIGINT
NextOpt ==
    \/ OptDiscover \/ OptInterrupt
    \/ \E d \in DownloadThreads :
          DownloadGet(d) \/ DownloadAcquire(d) \/ DownloadStopCheck(d) \/ Download(d)
    \/ \E l \in LlmThreads : LlmGet(l) \/ LlmRespond(l) \/ LlmRelease(l)

SpecOpt == InitOpt /\ [][NextOpt]_vars

\* the two while loops of one call of _get_nearby_images; the call is one
\* thread's straight-line code, so it goes on while a step is left to take
NextWalk == WalkExpand \/ WalkSwitch

SpecWalk == InitWalk /\ [][NextWalk]_vars /\ WF_vars(NextWalk)

\* two threads of a generic task that take the paths other threads add to it
\* and hand them back with finish, with every load and store of the TaskStats counters a step of its own
NextTotals ==
    \/ \E w \in Workers :
          \/ Load(w)
          \/ StartNextCapacity(w) \/ StartNextGate(w) \/ StartNextPop(w) \/ StartNextAppend(w)
          \/ TakeOnly(w)
          \/ DisposeCall(w) \/ StatsRead(w) \/ StatsWrite(w)
          \/ Unload(w)
    \/ AddPath(Check, PathOf(0, 1))

SpecTotals == InitFifo /\ [][NextTotals]_vars

\* the discover worker and the status printer on the branching tree
NextOrder ==
    \/ \E w \in Workers :
          \/ Load(w)
          \/ StartNextCapacity(w) \/ StartNextGate(w) \/ StartNextPop(w) \/ StartNextAppend(w)
          \/ ExecuteWide(w) \/ Dispose(w) \/ PendingExtend(w)
    \/ PrinterStep

SpecOrder == InitPriority /\ [][NextOrder]_vars

\* the discover worker and the status printer, given paths by other threads:
\* directories of the tree, files, paths that do not exist; a listing may fail
NextUnreadable ==
    \/ \E w \in Workers :
          \/ Load(w)
          \/ StartNextCapacity(w) \/ StartNextGate(w) \/ StartNextPop(w) \/ StartNextAppend(w)
          \/ ExecuteListed(w)
          \/ ExecuteUnreadable(w)
          \/ Dispose(w) \/ PendingExtend(w) \/ Forward(w)
    \/ PrinterStep
    \/ \E p \in Paths : AddPath(Discover, p)

SpecUnreadable == InitPriority /\ [][NextUnreadable]_vars

\* a run with one worker per stage, verbose off, SIGINT possible
Spec == Init /\ [][Next]_vars

\* the workers (one per stage) and the status printer of a run in which no
\* SIGINT arrives, for as long as the main thread is in the sleep of its wait loop
SpecRun == Init /\ [][NextRun]_vars

\* an uninterrupted run with the thread counts of THREAD_CONFIG
SpecRace == InitRace /\ [][NextRace]_vars

\* a verbose run with one worker per stage
SpecVerbose == InitVerbose /\ [][NextVerbose]_vars

\* the workers of the first two stages, with every load and store of the
\* TaskStats counters a step of its own
SpecStats == InitStats /\ [][NextStats]_vars

(* ------------------------------------------------------------------ *)
(* Properties                                                           *)
(* ------------------------------------------------------------------ *)
\* the step is taken by worker w, which leaves position p
Leaves(w, p) == pc[w] = p /\ pc'[w] # p

\* start_next returns None to worker w: the worker is back at its loop test
\* without an item, its stage's queue and active as they were
ReturnsNone(w) ==
    /\ pc'[w] \in {"sn_cap", "unload"}
    /\ item'[w] = NoItem
    /\ active'[StageOf(w)] = active[StageOf(w)]
    /\ IF StageOf(w) = Discover
       THEN heap_queue' = heap_queue
       ELSE queue'[StageOf(w)] = queue[StageOf(w)]

\* no worker of stage s is left: task.load() raised in each of its threads
StageDown(s) ==
    \E w \in Workers : StageOf(w) = s /\ pc[w] # "none" /\
        \A v \in Workers : (StageOf(v) = s /\ pc[v] # "none") => v \in load_failed

\* C11: a stage-fatal load failure does not hang the pipeline -- once load()
\* has failed for every worker of some stage, the orchestrator eventually
\* leaves its wait loop.
C11_LoadFailureSurfaced ==
    (\E s \in Stages : StageDown(s)) ~> (orch \in {"join", "done", "exited"})

\* C1: capacity invariant -- for every stage, in every reachable state, the
\* number of items in active is at most the stage's maximum, also when several
\* workers of the stage call start_next concurrently and the stage has more
\* worker threads than its maximum.
C1_CapacityInvariant == \A s \in Stages : Len(active[s]) <= maximum[s]

\* the downstream queue is at or above next_task.maximum * multiplier
C2_AtThreshold(s) ==
    /\ NextTask(s) # NoTask
    /\ (IF NextTask(s) = Discover THEN Len(heap_queue) ELSE Len(queue[NextTask(s)])) * MultDen
          >= maximum[NextTask(s)] * MultNum

\* C2: backpressure gate -- a start_next that reads the downstream queue at or
\* above the threshold returns None and leaves its own queue and active
\* unchanged, whatever they hold; one that finds capacity, a queued item and
\* the downstream queue below the threshold goes on to take the head of its
\* queue (the highest-priority entry for the discover stage), puts it in
\* active and returns it.
C2_BackpressureGate ==
    [][\A w \in Workers :
        LET s == StageOf(w) IN
        /\ Leaves(w, "sn_cap") =>
              IF Len(active[s]) >= maximum[s] \/ QueueLen(s) = 0
              THEN ReturnsNone(w)
              ELSE pc'[w] = "sn_gate"
        /\ Leaves(w, "sn_gate") =>
              IF C2_AtThreshold(s) THEN ReturnsNone(w) ELSE pc'[w] = "sn_pop"
        /\ (Leaves(w, "sn_pop") /\ QueueLen(s) > 0) =>
              /\ pc'[w] = "sn_append"
              /\ IF s = Discover
                 THEN /\ \E i \in 1..Len(heap_queue) :
                            /\ item'[w] = heap_queue[i][3]
                            /\ \A j \in 1..Len(heap_queue) :
                                  j = i \/ EntryLess(heap_queue[i], heap_queue[j])
                      /\ Len(heap_queue') = Len(heap_queue) - 1
                 ELSE /\ item'[w] = Head(queue[s])
                      /\ queue'[s] = Tail(queue[s])
        /\ Leaves(w, "sn_append") =>
              /\ pc'[w] = "execute"
              /\ item'[w] = item[w]
              /\ active'[s] = Append(active[s], item[w])
      ]_vars

\* C2 witness: a start_next call that has found capacity and a queued item is
\* at its downstream check while the downstream queue is at the threshold
C2_GateClosedWitness ==
    \E w \in Workers :
        /\ pc[w] = "sn_gate"
        /\ C2_AtThreshold(StageOf(w))
        /\ QueueLen(StageOf(w)) > 0
        /\ Len(active[StageOf(w)]) < maximum[StageOf(w)]

\* C3: exactly-one disposition -- every item start_next returned gets exactly
\* one of finish, fail, reject: a disposition call is made only for an item
\* that has had none, and a worker that goes back to its loop test from an
\* item has made one for it, also when an exception is raised after execute
\* has returned (here: by the verbose status print).
C3_ExactlyOneDisposition ==
    [][\A w \in Workers :
        /\ (pc[w] \in {"finish", "fail", "reject"} /\ pc'[w] # pc[w]) => calls[w] = << >>
        /\ (item[w] # NoItem /\ pc'[w] \in {"sn_cap", "unload"} /\ pc'[w] # pc[w]) =>
              \/ (pc[w] \in {"fail", "reject", "finish"} /\ calls[w] = << >>)
              \/ (pc[w] \notin {"fail", "reject", "finish"} /\ Len(calls[w]) = 1)
      ]_vars

\* no worker of stage s is inside finish / fail / reject
C4_Quiescent(s) == \A w \in Workers : StageOf(w) = s => pc[w] # "stats"

\* C4: stats invariant -- for every stage, whenever no worker of the stage is
\* inside finish/fail/reject, total.input = total.done + total.failed +
\* total.rejected.
C4_StatsInvariant ==
    \A s \in Stages :
        C4_Quiescent(s) =>
            total[s].input = total[s].done + total[s].failed + total[s].rejected

\* worker w has finished an item and still holds outputs of it that are in
\* no queue and not in the pending buffer
HoldsOutput(w) ==
    /\ pc[w] \in {"vb_lock", "vb_print", "pending", "forward"}
    /\ \/ result[w].pend # << >>
       \/ (result[w].out # << >> /\ NextTask(StageOf(w)) # NoTask)

\* C5: termination detection is sound -- when the orchestrator's wait loop
\* finds every stage with empty queue, active and pending buffer, no worker
\* holds an output of a finished item that it has not yet added downstream or
\* to the pending buffer.
C5_TerminationSound ==
    [][(orch = "check" /\ all_empty') => \A w \in Workers : ~HoldsOutput(w)]_vars

\* C6: error forwarding -- when execute raised for an item at a stage with a
\* downstream stage, the handler adds the pair (path of the item, error) once
\* to the downstream queue and goes on to fail(item), for a plain path string
\* as for a tuple.
C6_ErrorForwarded ==
    [][\A w \in Workers :
        LET n == NextTask(StageOf(w)) IN
        (Leaves(w, "except") /\ n # NoTask) =>
            /\ pc'[w] = "fail"
            /\ queue'[n] = Append(queue[n], Tup(item[w].p, "error"))
      ]_vars

\* worker w stores the failed counter of its stage's total
StoresFailed(w) ==
    /\ pc[w] = "stats" /\ sp[w] # << >>
    /\ Head(sp[w]) = <<"total", "failed", 1>>
    /\ sp'[w] # sp[w]

\* C7: an exception raised by execute does not end the worker -- from the
\* handler the worker calls fail(item), by which the item leaves active and
\* the stage's failed count rises by one, and then is back at its loop.
C7_FailAndContinue ==
    [][\A w \in Workers :
        LET s == StageOf(w) IN
        /\ Leaves(w, "except") => pc'[w] = "fail"
        /\ Leaves(w, "fail") => (pc'[w] = "stats" /\ ~InSeq(active'[s], item[w]))
        /\ (pc[w] = "stats" /\ calls[w] = <<"fail">>) => pc'[w] \in {"stats", "sn_cap"}
        /\ StoresFailed(w) => total'[s].failed = total[s].failed + 1
      ]_vars

\* C8: no item is left behind -- in a run without interrupt, in which every
\* load succeeds and every execute returns, every item put in a queue or in
\* the pending buffer is dequeued and disposed of before the orchestrator
\* has left its wait loop and the process has ended: by then every queue,
\* active list and the pending buffer are empty and no worker is between
\* taking an item and its disposition.
C8_NothingLeftBehind ==
    (orch = "exited" /\ ~interrupted) =>
        /\ \A s \in Stages : TaskEmpty(s)
        /\ \A w \in Workers :
              pc[w] \notin {"sn_append", "execute", "except", "finish", "fail", "reject"}

\* C9: when the wait loop has found all stages empty, the stop flag is set,
\* every worker has left its loop and unloaded and the status printer has
\* stopped by the time the run is reported done.
C9_StoppedWhenDone ==
    (orch = "done" /\ all_empty) =>
        /\ stop_event
        /\ \A w \in Workers : pc[w] \in {"dead", "none"}
        /\ printer = "p_dead"

\* C10: after an interrupt the orchestrator does not print the final summary
\* while a worker thread is alive: when the run is reported done, every
\* worker has disposed of its in-flight item and ended.
C10_WaitsForWorkers ==
    (orch = "done" /\ interrupted) => \A w \in Workers : pc[w] \in {"dead", "none"}

\* the heap h without its entry i
HeapWithout(h, i) == SubSeq(h, 1, i - 1) \o SubSeq(h, i + 1, Len(h))

\* C12: priority ordering -- under any interleaving of add and start_next on
\* the discover task, add gives the new path a counter above every queued one,
\* and each successful start_next takes out of the queue and returns a path
\* whose separator count is maximal among the queued paths, the earliest
\* added among those of that count.
C12_PriorityOrder ==
    [][/\ Len(heap_queue') = Len(heap_queue) + 1 =>
             \E k \in 1..Len(heap_queue') :
                 /\ HeapWithout(heap_queue', k) = heap_queue
                 /\ \A j \in 1..Len(heap_queue) : heap_queue[j][2] < heap_queue'[k][2]
       /\ \A w \in Workers :
             (StageOf(w) = Discover /\ Leaves(w, "sn_pop") /\ heap_queue # << >>) =>
                 \E i \in 1..Len(heap_queue) :
                     /\ item'[w] = heap_queue[i][3]
                     /\ heap_queue' = HeapWithout(heap_queue, i)
                     /\ \A j \in 1..Len(heap_queue) :
                           /\ SepCount(heap_queue[j][3].p) <= SepCount(heap_queue[i][3].p)
                           /\ (j # i /\ SepCount(heap_queue[j][3].p) = SepCount(heap_queue[i][3].p))
                                 => heap_queue[i][2] < heap_queue[j][2]
      ]_vars

\* C12 witness: start_next has returned a path while a shallower path that
\* was added before it is still queued
C12_DeeperFirstWitness ==
    \E w \in Workers : \E j \in 1..Len(heap_queue) :
        /\ StageOf(w) = Discover /\ pc[w] = "sn_append"
        /\ SepCount(heap_queue[j][3].p) < SepCount(item[w].p)
        /\ heap_queue[j][2] = 0

\* C13: FIFO dequeue -- for a generic stage, under any interleaving of add and
\* start_next calls, every add puts its item at the tail of the queue, every
\* successful start_next takes the head of the queue and returns it, and
\* nothing else changes the queue: items leave in the order they were added.
C13_FifoDequeue ==
    [][\A s \in Stages \ {Discover} :
          \/ queue'[s] = queue[s]
          \/ \E x \in {Str(p) : p \in Paths} : queue'[s] = Append(queue[s], x)
          \/ /\ queue[s] # << >>
             /\ queue'[s] = Tail(queue[s])
             /\ \E w \in Workers :
                   /\ StageOf(w) = s /\ Leaves(w, "sn_pop")
                   /\ item'[w] = Head(queue[s])
      ]_vars

\* C13 witness: two consumer threads have each taken an item of the queue
\* and a third item is still queued
C13_TwoConsumersWitness ==
    /\ pc[2] = "sn_append" /\ pc[3] = "sn_append"
    /\ item[2] # item[3]
    /\ queue[Check] # << >>

\* the step is one of worker w
StepOf(w) == pc'[w] # pc[w] \/ reg'[w] # reg[w] \/ sp'[w] # sp[w]

\* worker w stores the rejected counter of its stage's total
StoresRejected(w) ==
    /\ pc[w] = "stats" /\ sp[w] # << >>
    /\ Head(sp[w]) = <<"total", "rejected", 1>>
    /\ sp'[w] # sp[w]

\* what a worker does for a rejected item, apart from the count
RejectNotForwarded ==
    \A w \in Workers :
        LET s == StageOf(w) IN
        /\ (Leaves(w, "execute") /\ result'[w].skip) => pc'[w] = "reject"
        /\ Leaves(w, "reject") => (pc'[w] = "stats" /\ ~InSeq(active'[s], item[w]))
        /\ (StepOf(w) /\ (pc[w] = "reject" \/ (pc[w] = "stats" /\ calls[w] = <<"reject">>))) =>
              /\ pc'[w] \in {"stats", "sn_cap"}
              /\ total'[s].done = total[s].done
              /\ NextTask(s) # NoTask => queue'[NextTask(s)] = queue[NextTask(s)]

\* C14: rejection is not forwarded -- an item whose result the rejection
\* predicate marks is disposed of with reject, which raises the stage's
\* rejected count by one and leaves its done count alone, and the worker goes
\* back to its loop without adding anything to the downstream queue.
C14_RejectNotForwarded ==
    [][/\ RejectNotForwarded
       /\ \A w \in Workers :
             StoresRejected(w) => total'[StageOf(w)].rejected = total[StageOf(w)].rejected + 1
      ]_vars

\* worker w is inside the while loop of its thread function
InLoop(w) == pc[w] \notin {"load", "unload", "dead"}

\* C15: load/unload lifecycle -- a worker thread calls load() once, and before
\* its first start_next; it leaves its loop only into unload(), whether the
\* stop flag or an escaping exception ended the loop; unload() is called once
\* and the thread ends with it.
C15_Lifecycle ==
    [][\A w \in Workers :
          /\ pc'[w] = "load" => pc[w] = "load"
          /\ Leaves(w, "load") => pc'[w] \in {"sn_cap", "unload"}
          /\ (InLoop(w) /\ pc'[w] \in {"load", "unload", "dead"}) => pc'[w] = "unload"
          /\ pc[w] = "unload" => pc'[w] \in {"unload", "dead"}
          /\ (pc'[w] = "dead" /\ pc[w] # "dead") => pc[w] = "unload"
          /\ pc[w] = "dead" => pc'[w] = "dead"
      ]_vars

\* a thread whose load succeeded has ended through unload although nobody set
\* the stop flag (an exception escaped its loop), and another one is in its loop
C15_EscapedWitness ==
    /\ ~stop_event /\ pc[3] = "dead" /\ 3 \notin load_failed
    /\ InLoop(2)

\* a thread has ended through unload after the stop flag was set
C15_StoppedWitness ==
    /\ stop_event /\ pc[2] = "dead" /\ 2 \notin load_failed /\ pc[3] = "unload"

\* input file p has an error artifact and no primary artifact
ErrorOnly(p) == p \in error_files /\ p \notin output_files

\* C17: error-then-retry -- a file with an error artifact and no primary
\* artifact is rejected by skip-check when retry_failed is false and passed on
\* (accepted, with its path as the output to forward) when retry_failed is
\* true; once the write stage has written a success result for a file, its
\* primary artifact exists and its error artifact does not.
C17_ErrorThenRetry ==
    [][\A w \in Workers :
          /\ (Leaves(w, "execute") /\ StageOf(w) = Check /\ ErrorOnly(item[w].p)) =>
                IF retry_failed
                THEN /\ pc'[w] = "finish" /\ ~result'[w].skip
                     /\ result'[w].out = <<Str(item[w].p)>>
                ELSE pc'[w] = "reject" /\ result'[w].skip
          /\ (Leaves(w, "execute") /\ StageOf(w) = Write /\ ~IsTuple(item[w])) =>
                /\ item[w].p \in output_files'
                /\ item[w].p \notin error_files'
      ]_vars

\* with retry_failed, a file that has only an error artifact has passed
\* skip-check and the write worker is about to write its success result
C17_RetriedWitness ==
    /\ retry_failed /\ pc[4] = "execute" /\ ~IsTuple(item[4])
    /\ ErrorOnly(item[4].p) /\ total[Check].done >= 1

\* without retry_failed, skip-check has rejected a file that has only an error artifact
C17_SkippedWitness ==
    /\ ~retry_failed /\ pc[2] = "reject" /\ ErrorOnly(item[2].p)

\* C16: idempotent resume -- when every eligible input file has its primary
\* artifact, a run without retry rejects every item at skip-check
\* (total.rejected = total.input there whenever no worker is inside reject),
\* nothing reaches the stage after skip-check, and the set of primary
\* artifacts stays what it was.
C16_IdempotentResume ==
    /\ queue[Write] = << >> /\ active[Write] = << >> /\ total[Write] = ZeroStats
    /\ output_files = Files
    /\ total[Check].done = 0 /\ total[Check].failed = 0
    /\ C4_Quiescent(Check) => total[Check].rejected = total[Check].input

\* C18: discovery output accounting -- the discovery stage's total.done counts
\* the directories it visited, and once it has visited them all its
\* total.output is the number of eligible files it emitted to the next stage,
\* the subdirectories handed to the pending buffer not counted.
C18_DiscoveryOutput ==
    /\ total[Discover].done <= Cardinality(Dirs)
    /\ total[Discover].done = Cardinality(Dirs) =>
          total[Discover].output = Cardinality(Files)

\* C19: context result size and self-exclusion -- ContextTask.execute returns
\* at most max_context_items context descriptions, none of them the
\* description of the target file.
C19_ContextBounded ==
    ctx.phase = "done" =>
        /\ Len(ctx.context) <= ctx.max_context_items
        /\ \A i \in 1..Len(ctx.context) : ctx.context[i] # ctx.input_path[1]

\* a call with an unnormalized target path has returned max_context_items
\* descriptions and left candidates out
C19_FullContextWitness ==
    /\ ctx.phase = "done" /\ ctx.input_path[2]
    /\ ctx.max_context_items >= 1
    /\ Len(ctx.context) = ctx.max_context_items
    /\ Len(ctx.candidates) > ctx.max_context_items

\* the max bound of the score of image i against the target of call c
MaxBound(c, i) == RelevanceScore(c.meta[c.input_path[1]], c.meta[i])[2]

\* the scored candidates of call c that have a description, and those of
\* them whose max bound is finite
Described(c) == {c.candidates[k].img[1] : k \in {j \in 1..Len(c.candidates) :
                                                  HasDescription(c, c.candidates[j].img)}}
Rankable(c) == {i \in Described(c) : MaxBound(c, i) < Inf}

\* C20: context ranking -- the returned descriptions are the first
\* max_context_items scored candidates in ascending order of the max bound of
\* their score, and no returned candidate has a larger max bound than a
\* scored candidate with a description that was left out.
C20_ContextRanking ==
    ctx.phase = "done" =>
        LET ret == ctx.context
            n == ctx.max_context_items
            size == Cardinality(Rankable(ctx))
        IN /\ Len(ret) = IF n < size THEN n ELSE size
           /\ \A i \in 1..Len(ret) : ret[i] \in Rankable(ctx)
           /\ \A i, j \in 1..Len(ret) : i < j => MaxBound(ctx, ret[i]) <= MaxBound(ctx, ret[j])
           /\ \A i \in 1..Len(ret) : \A g \in Described(ctx) :
                 (\A k \in 1..Len(ret) : ret[k] # g) => MaxBound(ctx, ret[i]) <= MaxBound(ctx, g)

\* the same for the calls in which every scored candidate has a description
C20_RankingWhenAllDescribed ==
    (ctx.phase = "done" /\ Cardinality(Described(ctx)) = Len(ctx.candidates)) =>
        C20_ContextRanking

\* image i has an exact timestamp / a timestamp range in call c
Exact(c, i) == c.meta[i].datetime /\ c.meta[i].min = c.meta[i].max
DateOnly(c, i) == c.meta[i].datetime /\ c.meta[i].min < c.meta[i].max

\* the largest distance the target of call c (exact) can have from image i
WorstCase(c, i) ==
    LET t == c.meta[c.input_path[1]].min
        a == Abs(t - c.meta[i].min)
        b == Abs(t - c.meta[i].max)
    IN IF a < b THEN b ELSE a

\* image i stands before image j in candidates_to_check of call c
RankedBefore(c, i, j) ==
    \E k, l \in 1..Len(c.candidates) :
        k < l /\ c.candidates[k].img[1] = i /\ c.candidates[l].img[1] = j

\* C21: context scoring with uncertainty -- for an exact-timestamp target, an
\* exact candidate A at distance d stands before a date-only candidate B
\* whose worst-case distance exceeds d, and of two exact candidates the
\* nearer stands first.
C21_UncertaintyRanking ==
    (ctx.phase \in {"nearby", "done"} /\ Exact(ctx, ctx.input_path[1])) =>
        \A a, b \in Images \ {ctx.input_path[1]} :
            /\ (Exact(ctx, a) /\ DateOnly(ctx, b) /\ WorstCase(ctx, a) < WorstCase(ctx, b))
                  => RankedBefore(ctx, a, b)
            /\ (Exact(ctx, a) /\ Exact(ctx, b) /\ WorstCase(ctx, a) < WorstCase(ctx, b))
                  => RankedBefore(ctx, a, b)

\* the second half alone: of two exact candidates the nearer stands first
C21_ExactNearerFirst ==
    (ctx.phase \in {"nearby", "done"} /\ Exact(ctx, ctx.input_path[1])) =>
        \A a, b \in Images \ {ctx.input_path[1]} :
            (Exact(ctx, a) /\ Exact(ctx, b) /\ WorstCase(ctx, a) < WorstCase(ctx, b))
                => RankedBefore(ctx, a, b)

\* C22: bounded geocoding retry -- an item gets at most max_retries attempts;
\* a network failure on an attempt before the last is followed by a (doubled)
\* wait and another attempt; a network failure on the last attempt and any
\* other geocoder error end the item in the worker's except handler, which
\* calls fail(item).
C22_BoundedRetry ==
    [][\A w \in Workers :
          /\ geo'.attempt[w] <= geo'.max_retries
          /\ (pc[w] = "geocode" /\ geo'.attempt[w] = geo.attempt[w] + 1) =>
                /\ (geo'.last[w] = "network" /\ geo'.attempt[w] < geo.max_retries) =>
                      /\ pc'[w] = "geocode"
                      /\ geo'.wait_time[w] = 2 * geo.wait_time[w]
                /\ (geo'.last[w] = "network" /\ geo'.attempt[w] = geo.max_retries) =>
                      pc'[w] = "except"
                /\ geo'.last[w] = "geopy" => pc'[w] = "except"
          /\ (pc[w] = "geocode" /\ pc'[w] = "geocode" /\ geo' # geo) =>
                geo'.attempt[w] = geo.attempt[w] + 1
          /\ (Leaves(w, "except") /\ StageOf(w) = Check) =>
                (pc'[w] = "fail" /\ item'[w] = item[w])
          /\ (Leaves(w, "fail") /\ StageOf(w) = Check) =>
                /\ total'[Check].failed = total[Check].failed + 1
                /\ ~InSeq(active'[Check], item[w])
      ]_vars

\* a worker is about to call fail(item) after max_retries >= 2 attempts that
\* all ended in a network error
C22_ExhaustedWitness ==
    /\ pc[2] = "fail" /\ geo.max_retries >= 2
    /\ geo.attempt[2] = geo.max_retries /\ geo.last[2] = "network"
    /\ geo.wait_time[2] > initial_wait_seconds

\* C23: pending-flush discipline -- the discovery queue grows only by the
\* status printer moving the head of the pending buffer into it, while the
\* printer holds the status lock and after its print and reset of the recent
\* counters in the same critical section; a worker only appends subdirectories
\* to the pending buffer, in a critical section of the status lock, and leaves
\* the discovery queue as it is.
C23_PendingFlush ==
    [][/\ QueueLen(Discover)' > QueueLen(Discover) =>
            /\ printer = "p_flush" /\ status_lock = "printer" /\ status_lock' = "printer"
            /\ pending_queue # << >>
            /\ heap_queue' = HeapAdd(heap_queue, counter, Head(pending_queue))
            /\ pending_queue' = Tail(pending_queue)
            /\ pc' = pc
       /\ Len(pending_queue') > Len(pending_queue) =>
            /\ status_lock = None /\ status_lock' = None
            /\ \E w \in Workers :
                  /\ StageOf(w) = Discover /\ pc[w] = "pending"
                  /\ pending_queue' = pending_queue \o result[w].pend
            /\ heap_queue' = heap_queue
       /\ (printer' = "p_flush" /\ printer # "p_flush") =>
            /\ printer = "p_print" /\ status_lock = "printer" /\ status_lock' = "printer"
            /\ recent' = [s \in Stages |-> ZeroStats]
       /\ printer \in {"p_print", "p_flush"} => status_lock = "printer"
      ]_vars

\* the printer has just moved a subdirectory of an executed directory from the
\* pending buffer into the discovery queue and still holds the lock
C23_FlushedWitness ==
    /\ printer = "p_flush" /\ status_lock = "printer"
    /\ pending_queue = << >> /\ QueueLen(Discover) >= 1
    /\ total[Discover].done >= 1

\* the number of places in which directory c waits for its execute: entries of
\* the discovery heap, of the pending buffer, of a worker's pending_items, and
\* workers that took it and have not called execute yet
DirCopies(c) ==
    Cardinality({i \in 1..Len(heap_queue) : heap_queue[i][3].p = c})
    + Cardinality({i \in 1..Len(pending_queue) : pending_queue[i].p = c})
    + Cardinality({x \in Workers \X (1..MaxDepth) :
            /\ StageOf(x[1]) = Discover /\ x[2] <= Len(result[x[1]].pend)
            /\ result[x[1]].pend[x[2]].p = c})
    + Cardinality({w \in Workers :
            StageOf(w) = Discover /\ pc[w] \in {"sn_append", "execute"} /\ item[w].p = c})

\* the number of entries for file f in discovery results not yet forwarded
FileCopies(f) ==
    Cardinality({x \in Workers \X (1..FilesPerDir) :
            /\ StageOf(x[1]) = Discover /\ x[2] <= Len(result[x[1]].out)
            /\ result[x[1]].out[x[2]].p = f})

\* os.path.dirname
Parent(p) == SubSeq(p, 1, Len(p) - 1)

\* every directory has been executed once and every file forwarded once
AllOnce ==
    /\ \A d \in Dirs : hist.exec[d] = 1
    /\ \A f \in Files : hist.fwd[f] = 1

\* no directory or file is dropped or duplicated on its way: a directory whose
\* parent has been executed (or the root) is either waiting in exactly one
\* place or has been executed exactly once; a file of an executed directory is
\* either in one unforwarded result or has been forwarded exactly once
C24_NoDropNoDup ==
    /\ \A c \in Dirs :
          DirCopies(c) + hist.exec[c] =
              IF c = Root \/ hist.exec[Parent(c)] >= 1 THEN 1 ELSE 0
    /\ \A f \in Files :
          FileCopies(f) + hist.fwd[f] = IF hist.exec[Parent(f)] >= 1 THEN 1 ELSE 0

\* C24: exactly-once discovery -- no directory is executed and no file is
\* forwarded more than once, and when a run without interrupt has ended, every
\* directory of the tree has been passed to discovery's execute exactly once
\* and every file has been added to the next stage's queue exactly once.
C24_ExactlyOnce ==
    /\ \A d \in Dirs : hist.exec[d] <= 1
    /\ \A f \in Files : hist.fwd[f] <= 1
    /\ (orch = "exited" /\ ~interrupted) => AllOnce

\* a subdirectory that went through the pending buffer has been executed and
\* its file forwarded
C24_DiscoveredWitness == AllOnce /\ MaxDepth >= 1

\* C25: start_next is atomic among the workers of a stage -- a worker at the
\* pop of start_next either takes the head of the queue, which leaves the queue
\* with it (no second worker can receive that entry), or, when another worker
\* has taken the last entry in the meantime, receives none and is back at its
\* loop test, still running.
C25_StartNextAtomic ==
    [][\A w \in Workers :
        LET s == StageOf(w) IN
        Leaves(w, "sn_pop") =>
            IF QueueLen(s) = 0
            THEN pc'[w] = "sn_cap" /\ item'[w] = NoItem
            ELSE /\ pc'[w] = "sn_append"
                 /\ QueueLen(s)' = QueueLen(s) - 1
                 /\ IF s = Discover
                    THEN item'[w] = heap_queue[HeapMinIndex(heap_queue)][3]
                    ELSE item'[w] = Head(queue[s]) /\ queue'[s] = Tail(queue[s])
      ]_vars

\* the part of C25 that holds: a pop that finds an entry takes exactly that
\* entry out of the queue
C25_PopTakesOne ==
    [][\A w \in Workers :
        LET s == StageOf(w) IN
        (Leaves(w, "sn_pop") /\ QueueLen(s) > 0) =>
            /\ pc'[w] = "sn_append" /\ QueueLen(s)' = QueueLen(s) - 1
            /\ s # Discover => item'[w] = Head(queue[s]) /\ queue'[s] = Tail(queue[s])
      ]_vars

\* worker w has an item that start_next took out of the queue for it
Holding(w) ==
    pc[w] \in {"sn_append", "execute", "except", "finish", "fail", "reject",
               "vb_lock", "vb_print", "pending", "forward"}

\* the step by which worker w is through with its item: a disposition call or
\* the last add of its outputs, nothing of the result left to hand on, the item
\* out of active
DoneWithItem(w) ==
    LET s == StageOf(w) IN
    /\ pc[w] \in {"finish", "fail", "reject", "pending", "forward"}
    /\ ~InSeq(active'[s], item[w])
    /\ pc[w] = "forward" => Len(result[w].out) = 1
    /\ pc[w] = "pending" => (NextTask(s) = NoTask \/ result[w].out = << >>)
    /\ pc[w] = "finish" =>
          /\ NextTask(s) = NoTask \/ result[w].out = << >>
          /\ ~HasPendingQueue(s) \/ result[w].pend = << >>

\* the part of C26 that is about the worker loop alone: whether or not the stop
\* flag is set, a worker leaves an item it took only after execute, the
\* disposition and the adds of its outputs
C26_CompletesItem ==
    [][\A w \in Workers :
          (Holding(w) /\ pc'[w] \in {"sn_cap", "unload", "dead"}) => DoneWithItem(w)
      ]_vars

\* C26: cooperative cancellation -- a worker that took an item leaves it, also
\* with the stop flag set, only after execute, the disposition and the adds of
\* its outputs; an error of execute is added downstream before fail(item); and
\* when the process has ended after the stop flag was set, no item is left in
\* any active list.
C26_CooperativeCancellation ==
    [][/\ \A w \in Workers :
             /\ (Holding(w) /\ pc'[w] \in {"sn_cap", "unload", "dead"}) => DoneWithItem(w)
             /\ (Leaves(w, "except") /\ NextTask(StageOf(w)) # NoTask) =>
                   queue'[NextTask(StageOf(w))] =
                       Append(queue[NextTask(StageOf(w))], Tup(item[w].p, "error"))
       /\ (orch' = "exited" /\ stop_event') => \A s \in Stages : active'[s] = << >>
      ]_vars

\* C26 without the forwarding of errors
C26_NoItemLeftActive ==
    [][(orch' = "exited" /\ stop_event') => \A s \in Stages : active'[s] = << >>]_vars

\* C27: recent stats invariant -- for every stage, whenever no worker of the
\* stage is inside finish/fail/reject (and no reset_recent is under way: it is
\* one step of the status printer), recent.input = recent.done + recent.failed
\* + recent.rejected.
C27_RecentInvariant ==
    \A s \in Stages :
        C4_Quiescent(s) =>
            recent[s].input = recent[s].done + recent[s].failed + recent[s].rejected

\* C28: total is monotonic -- no step lowers total.done, total.failed,
\* total.rejected, total.input or total.output of any stage.
C28_TotalMonotonic ==
    [][\A s \in Stages :
          /\ total'[s].done >= total[s].done
          /\ total'[s].failed >= total[s].failed
          /\ total'[s].rejected >= total[s].rejected
          /\ total'[s].input >= total[s].input
          /\ total'[s].output >= total[s].output
      ]_vars

\* C29: status snapshots are serialized -- a status print with its clearing of
\* the completed items and its reset of the recent counters is made under the
\* status lock: the printer makes it holding the lock, a worker's verbose print
\* is made only while no other thread is inside a critical section of the
\* lock, and the recent counters are reset by such a step only.
C29_SnapshotsSerialized ==
    [][/\ (printer = "p_print" /\ printer' # "p_print") => status_lock = "printer"
       /\ \A w \in Workers :
             (Leaves(w, "vb_print") /\ pc'[w] # "except") => status_lock = None
       /\ (recent' # recent /\ recent' = [s \in Stages |-> ZeroStats]) =>
             \/ printer = "p_print" /\ printer' = "p_flush"
             \/ \E w \in Workers : Leaves(w, "vb_print")
      ]_vars

\* the part of C29 about the periodic status print
C29_PeriodicUnderLock ==
    [][(printer = "p_print" /\ printer' # "p_print") =>
            /\ status_lock = "printer" /\ status_lock' = "printer"
            /\ recent' = [s \in Stages |-> ZeroStats]]_vars

RECURSIVE Preorder(_)
\* the directories of the branching tree below and including d, each directory
\* before its subdirectories and these in listing order
Preorder(d) ==
    LET RECURSIVE Sub(_)
        Sub(k) == IF k > Fanout \/ SepCount(d) >= WideDepth THEN << >>
                  ELSE Preorder(d \o <<k - 1>>) \o Sub(k + 1)
    IN <<d>> \o Sub(1)

\* sequence a is an initial part of sequence b
IsPrefix(a, b) == Len(a) <= Len(b) /\ SubSeq(b, 1, Len(a)) = a

\* C30: deterministic discovery order -- with one discovery worker the
\* directories are passed to execute in the same order in every execution,
\* however the pending flush interleaves with the worker: the order of the
\* execution in which every flush is complete before the worker's next
\* start_next (deepest first, then listing order) is the order of all, so the
\* sequence executed so far is always an initial part of it.
C30_DeterministicOrder == IsPrefix(hist.order, Preorder(Root))

\* the execution in which every flush comes before the next start_next
C30_DepthFirstReached == hist.order # Preorder(Root)

\* C31: discovery error policy -- execute of a path that is not a directory or
\* cannot be listed raises nothing and yields no files and no subdirectories;
\* the worker disposes of the item with finish and output count 0: done rises
\* by one, failed, rejected and output stay, the item leaves active, nothing is
\* added downstream or to the pending buffer and the worker is back at its loop.
C31_UnreadablePolicy ==
    [][\A w \in Workers :
          StageOf(w) = Discover =>
             /\ (Leaves(w, "execute") /\ (item[w].p \notin Dirs \/ result'[w].t = "list")) =>
                   /\ pc'[w] = "finish"
                   /\ result'[w].out = << >> /\ result'[w].pend = << >>
             /\ (Leaves(w, "finish") /\ result[w].t = "list") =>
                   /\ pc'[w] = "sn_cap"
                   /\ total'[Discover] = [total[Discover] EXCEPT !.done = @ + 1, !.input = @ + 1]
                   /\ ~InSeq(active'[Discover], item[w])
                   /\ queue' = queue /\ pending_queue' = pending_queue
                   /\ heap_queue' = heap_queue
      ]_vars

\* a path that is not a directory has been finished: counted as done with no
\* output, and the worker has gone on to take a directory of the tree
C31_FinishedWitness ==
    /\ total[Discover].done = 1 /\ total[Discover].output = 0
    /\ total[Discover].failed = 0 /\ hist.order = << >>
    /\ pc[1] = "execute" /\ item[1].p \in Dirs

\* the loop of _get_nearby_images that keeps the files above the target, the
\* loop that keeps the files below it, and a step that lists directory d
AfterDirection == walk.phase = "down"
BeforeDirection == walk.phase = "up"
Expands(d) ==
    \/ BeforeDirection /\ walk'.listed_up = Append(walk.listed_up, d)
    \/ AfterDirection /\ walk'.listed_down = Append(walk.listed_down, d)

\* C32: in the "after" direction (the loop that keeps the files above the
\* target) the directory expanded next is the greatest directory that still
\* needs discovery, and in the "before" direction it is the least
C32_FrontierOrder ==
    [][/\ (AfterDirection /\ walk'.listed_down # walk.listed_down) => Expands(MaxPath(walk.needs))
       /\ (BeforeDirection /\ walk'.listed_up # walk.listed_up) => Expands(MinPath(walk.needs))
     ]_vars

\* no directory occurs twice in the list s
NoRepeat(s) == \A i \in 1..Len(s) : \A j \in 1..Len(s) : s[i] = s[j] => i = j

\* every directory of the list s is a directory of the tree under Root
UnderRoot(s) == \A i \in 1..Len(s) : StartsWith(s[i], Root) /\ s[i] \in WalkDirs

\* C33: on the tree each direction of the search terminates, lists each
\* directory at most once, lists no directory outside the tree root, and
\* expands no directory once it has collected 2 x max_context_items files
C33_WalkTerminates ==
    /\ [](walk.phase # "idle" =>
             /\ NoRepeat(walk.listed_up) /\ NoRepeat(walk.listed_down)
             /\ UnderRoot(walk.listed_up) /\ UnderRoot(walk.listed_down))
    /\ [][/\ walk'.listed_up # walk.listed_up =>
               Len(walk.all_up_images) < 2 * walk.max_context_items
          /\ walk'.listed_down # walk.listed_down =>
               Len(walk.all_down_images) < 2 * walk.max_context_items
         ]_vars
    /\ <>(walk.phase = "done")

\* the search has ended; the first loop listed three directories and the
\* second stopped on its file count while directories still needed discovery
C33_StoppedEarlyWitness ==
    /\ walk.phase = "done"
    /\ walk.max_context_items >= 1
    /\ Len(walk.listed_up) >= 3
    /\ walk.needs # {}
    /\ Len(walk.all_down_images) >= 2 * walk.max_context_items

\* the context a call returns when the candidates without a description are
\* left out one by one: the first max_context_items of the others whose max
\* bound is finite
ContextOfDescribed(c) ==
    LET Usable(x) == HasDescription(c, x.img) /\ x.score[2] < Inf
        firstN == Take(SelectSeq(c.candidates, Usable), c.max_context_items)
    IN [i \in 1..Len(firstN) |-> firstN[i].img[1]]

\* C34: a nearby candidate without a description artifact is left out of the
\* context on its own, and the remaining candidates that have one are still
\* scored and returned
C34_ExcludedIndividually ==
    ctx.phase = "done" => ctx.context = ContextOfDescribed(ctx)

\* C35: the score (lo, hi) of a candidate range [cmin, cmax] against a target
\* range [tmin, tmax] is a true distance bound -- lo <= hi and
\* lo <= |t - c| <= hi for every t of the target range and every c of the
\* candidate range; for two single instants lo = hi = |t - c|
C35_TrueDistanceBound ==
    ctx.phase \in {"nearby", "done"} =>
        \A k \in 1..Len(ctx.candidates) :
            LET tm == ctx.meta[ctx.input_path[1]]
                cm == ctx.meta[ctx.candidates[k].img[1]]
                lo == ctx.candidates[k].score[1]
                hi == ctx.candidates[k].score[2]
            IN (tm.datetime /\ cm.datetime) =>
                  /\ lo <= hi
                  /\ \A t \in tm.min..tm.max : \A c \in cm.min..cm.max :
                        lo <= Abs(t - c) /\ Abs(t - c) <= hi
                  /\ (tm.min = tm.max /\ cm.min = cm.max) =>
                        lo = Abs(tm.min - cm.min) /\ hi = lo

\* the last part alone: for two single instants lo = hi = |t - c|
C35_ExactInstants ==
    ctx.phase \in {"nearby", "done"} =>
        \A k \in 1..Len(ctx.candidates) :
            LET tm == ctx.meta[ctx.input_path[1]]
                cm == ctx.meta[ctx.candidates[k].img[1]]
            IN (tm.datetime /\ cm.datetime /\ tm.min = tm.max /\ cm.min = cm.max) =>
                  ctx.candidates[k].score = <<Abs(tm.min - cm.min), Abs(tm.min - cm.min)>>

\* worker w takes a step of start_next, and the step is one that returns None
InStartNext(w) ==
    pc[w] \in {"sn_cap", "sn_gate", "sn_pop", "sn_append"} /\ pc'[w] # pc[w]
NoneReturned(w) ==
    InStartNext(w) /\ pc'[w] \notin {"sn_gate", "sn_pop", "sn_append", "execute"}

\* C36: start_next has no effect on the downstream stage -- no step of it
\* changes next_task's queue, active or stats; and a start_next that returns
\* None leaves the calling stage's own queue, active and stats as they were
C36_StartNextFrame ==
    [][\A w \in Workers :
        LET s == StageOf(w)
            n == NextTask(s)
        IN /\ (InStartNext(w) /\ n # NoTask) =>
                 /\ queue'[n] = queue[n] /\ active'[n] = active[n]
                 /\ total'[n] = total[n] /\ recent'[n] = recent[n]
           /\ NoneReturned(w) =>
                 /\ queue'[s] = queue[s] /\ active'[s] = active[s]
                 /\ total'[s] = total[s] /\ recent'[s] = recent[s]
                 /\ s = Discover => heap_queue' = heap_queue /\ counter' = counter
      ]_vars

\* the discover worker, which has finished a directory, is at the downstream
\* check of start_next with a queued path of its own while the downstream
\* queue is at its threshold and the downstream worker is about to take from it
C36_ClosedGateWitness ==
    /\ pc[1] = "sn_gate" /\ GateClosed(Discover)
    /\ heap_queue # << >>
    /\ total[Discover].done = 1
    /\ pc[2] = "sn_pop"

\* ceil(next_task.maximum * backpressure_multiplier)
CeilThreshold(s) == (maximum[s] * MultNum + MultDen - 1) \div MultDen

\* C37: backpressure bounds the downstream queue -- the queue of the successor
\* of a stage whose items each add at most one element to it (here the check
\* stage: one result or nothing per item) never holds more than
\* ceil(successor.maximum x multiplier) - 1 + W entries, W the number of
\* worker threads of the stage
C37_BackpressureBound ==
    Len(queue[Write]) <= CeilThreshold(Write) - 1 + NumThreads[Check]

\* the successor's queue is at the bound while a worker of the stage is held
\* at the downstream check with a further item queued
C37_AtBoundWitness ==
    /\ Len(queue[Write]) = CeilThreshold(Write) - 1 + NumThreads[Check]
    /\ queue[Check] # << >>
    /\ \E w \in {2, 3} : pc[w] = "sn_gate"

\* the workers of stage s that have an item start_next returned to them and
\* have not yet called finish, fail or reject for it
InFlight(s) ==
    {w \in Workers : StageOf(w) = s /\ calls[w] = << >>
                     /\ pc[w] \in {"execute", "except", "finish", "fail", "reject"}}

\* C38: active tracks in-flight work -- the number of entries of a stage's
\* active list is the number of the stage's workers that are between a
\* successful start_next and their finish, fail or reject call for the item;
\* active is empty whenever none of the stage's workers has an item
C38_ActiveTracksInFlight ==
    \A s \in Stages : Len(active[s]) = Cardinality(InFlight(s))

\* both workers of the check stage hold an item, the same path added twice:
\* one is in execute, the execute of the other has raised
C38_TwoInFlightWitness ==
    /\ pc[2] = "execute" /\ pc[3] = "fail"
    /\ item[2] = item[3]
    /\ Len(active[Check]) = 2

\* the images that are being downloaded, or are downloaded and have not
\* finished LLM processing
InHand ==
    {opt.input_path[d] : d \in {e \in DownloadThreads : opt.dpc[e] = "download"}}
      \cup {opt.llm_queue[k] : k \in 1..Len(opt.llm_queue)}
      \cup {opt.llm_path[l] : l \in {m \in LlmThreads : opt.lpc[m] = "respond"}}

\* the handling of image i has come to one of its three ends
Ended(i) ==
    \/ opt.fate[i] = "download_error"
    \/ opt.fate[i] = "stopped" /\ opt.acq[i] = 1
    \/ opt.fate[i] \in {"llmed", "llm_failed"} /\ \A l \in LlmThreads :
          ~(opt.lpc[l] = "release" /\ opt.llm_path[l] = i)

RECURSIVE SumOver(_, _)
SumOver(f, S) ==
    IF S = {} THEN 0 ELSE LET x == CHOOSE y \in S : TRUE IN f[x] + SumOver(f, S \ {x})

\* C39: semaphore-bounded hand-off -- the images being downloaded or
\* downloaded and not yet through LLM processing never number more than
\* MAX_DOWNLOADED_BEFORE_LLM, and every slot a download worker acquired is
\* released once and no more: after the LLM processing of its image, on a
\* download error, or when the stop flag is seen after the acquire
C39_SemaphoreHandOff ==
    opt # NoOpt =>
        /\ Cardinality(InHand) <= MAX_DOWNLOADED_BEFORE_LLM
        /\ \A i \in 1..OptImages :
              /\ opt.rel[i] <= opt.acq[i] /\ opt.acq[i] <= 1
              /\ Ended(i) => opt.rel[i] = 1
              /\ opt.rel[i] = 1 => opt.fate[i] \in {"download_error", "stopped", "llmed", "llm_failed"}
        /\ opt.llm_queue_semaphore =
              MAX_DOWNLOADED_BEFORE_LLM - SumOver(opt.acq, 1..OptImages)
                                        + SumOver(opt.rel, 1..OptImages)

\* every slot is taken: a download thread waits for one with its image while
\* another image is queued for the LLM thread
C39_AllSlotsTakenWitness ==
    /\ opt # NoOpt /\ ~opt.stop_event
    /\ opt.llm_queue_semaphore = 0
    /\ \E d \in DownloadThreads : opt.dpc[d] = "acquire"
    /\ opt.llm_queue # << >>

====
